---- MODULE Spec2Model ----
(***************************************************************************)
(* Verification model of watchinator (github.com/learnitall/watchinator).  *)
(*                                                                         *)
(* Part 1: the pollinator, the config callback of the watchinator and the  *)
(*         event loop of the configinator, as concurrent threads: one      *)
(*         orchestrator thread that runs Add/Delete/StopAll and the config *)
(*         callback, one goroutine per poll, the tickers, and the          *)
(*         environment (config file events, context cancellation).         *)
(* Part 2: the matchinator as a pure function over bounded inputs, and the *)
(*         matchers a Watch builds through GetMatchinator.                 *)
(* Part 3: actioninator.Handle: the lock, the errgroup and the actions.    *)
(* Part 4: the body of the poll callback, tick after tick.                 *)
(* Part 5: gitHubinator.ListIssues, page by page and item by item.         *)
(* Part 6: Config.Validate and Watch.ValidateAndPopulate over bounded       *)
(*         configs, and the program as watchinator.Watch runs it.          *)
(* Part 7: one watch whose callback invocations and tick metric are        *)
(*         counted.                                                        *)
(* Part 8: gitHubinator.listIssueLabels, page by page, and the pollinator  *)
(*         calls under the fairness of the Go scheduler.                   *)
(***************************************************************************)
EXTENDS Integers, Sequences, FiniteSets, TLC

\* ---------------------------------------------------------------- bounds
\* number of poll structs that may be allocated in one behaviour
MaxPolls == 3
\* number of fsnotify events that may be queued in w.Events
MaxEvents == 1
\* number of watches in one config
MaxWatches == 2
\* number of predicates registered in one matchinator
MaxFuncs == 3

\* number of distinct GitHubItems handed to a matchinator
MaxItems == 2
\* number of entries in one selector, regex or label list of a Watch
MaxList == 1
\* number of goroutines that call Handle on one actioninator
MaxCallers == 2
\* number of repositories of one watch
MaxRepos == 2
\* number of issues one ListIssues call returns
MaxIssues == 2
\* number of issues in one page of the list issues query (N, scaled down)
PageSize == 1
\* number of ticks one counted poll receives
MaxTicks == 2
\* number of labels of an issue
MaxLabels == 3

\* watch / poll names
Names == {"a", "b"}
\* the absent map entry (polls[name] with ok == false)
None == 0
PollIds == 1..MaxPolls

VARIABLES
    polls,            \* pollinator.polls: name -> poll id, or None
    pstate,           \* poll id -> the poll struct and the state of its goroutine
    nextId,           \* next poll struct to allocate
    ctxDone,          \* pollinator.ctx is cancelled
    parentDone,       \* the context given to NewPollinator / Watch is cancelled
    op,               \* the pollinator call the orchestrator thread is inside
    cfgPc,            \* position of configinator.Watch
    pass,             \* the running config callback (reconcile pass)
    fsEvents,         \* events queued in the fsnotify watcher
    last,             \* history: the pollinator call or config callback that returned last
    stopAllMark,      \* history: nextId when StopAll returned last, 0 before it ever did
    matchFuncs,       \* matchinator.matchFuncs
    hasBodyRegex,     \* matchinator.hasBodyRegex
    hasRequiredLabels, \* matchinator.hasRequiredLabels
    watch,            \* the Watch the matchinator was built from by GetMatchinator, or NoWatch
    item,             \* the GitHubItem handed to Matches
    result,           \* what the last Matches call returned
    actions,          \* actioninator.actions: the names of the GitHubItemActions
    actionLock,       \* actioninator.actionLock: the caller that holds it, or Unlocked
    handle,           \* caller -> the Handle call of that caller and its errgroup
    handleCtxDone,    \* the context the callers pass to Handle is cancelled
    setSubscriptionError, \* what GitHubinator.SetSubscription returns when it is reached
    newMsgError,      \* what Emailinator.NewMsg returns
    sendError,        \* what Emailinator.Send returns when it is reached
    repositories,     \* watch.Repositories of the watch of the poll callback
    callback,         \* the running invocation of the poll callback
    lastTick,         \* history: whether the poll callback has returned, and the last time after an error
    list,             \* the ListIssues call of the gitHubinator and what it has done
    load,             \* the loadConfig call of the configinator and what it returned last
    count,            \* the invocations, received ticks and tick metric of one watch
    labelq            \* the listIssueLabels call of the gitHubinator

pollVars == <<polls, pstate, nextId, ctxDone, parentDone, op, cfgPc, pass, fsEvents,
              last, stopAllMark>>
matchVars == <<matchFuncs, hasBodyRegex, hasRequiredLabels, watch, item, result>>
\* what the threads of the pollinator leave alone
actionVars == <<actions, actionLock, handle, handleCtxDone, setSubscriptionError,
                newMsgError, sendError>>
\* what the threads of the pollinator leave alone
tickVars == <<repositories, callback, lastTick>>
listVars == <<list>>
configVars == <<load>>
countVars == <<count>>
labelVars == <<labelq>>
\* what the threads of the pollinator leave alone
nonPollVars == <<matchVars, actionVars, tickVars, listVars, configVars, countVars, labelVars>>
\* what the calls on a matchinator leave alone
nonMatchVars == <<pollVars, actionVars, tickVars, listVars, configVars, countVars, labelVars>>
\* what the calls on an actioninator leave alone
nonActionVars == <<pollVars, matchVars, tickVars, listVars, configVars, countVars, labelVars>>
\* what the poll callback and its poll leave alone
nonTickVars == <<matchVars, actionVars, listVars, configVars, countVars, labelVars>>
\* what ListIssues leaves alone
nonListVars == <<pollVars, matchVars, actionVars, tickVars, configVars, countVars, labelVars>>
\* what loadConfig and the building of a poll callback leave alone
nonConfigVars == <<pollVars, actionVars, tickVars, listVars, countVars, labelVars>>
\* what a counted poll leaves alone
nonCountVars == <<matchVars, actionVars, tickVars, listVars, configVars, labelVars>>
\* what listIssueLabels leaves alone
nonLabelVars == <<pollVars, matchVars, actionVars, tickVars, listVars, configVars, countVars>>
vars == <<pollVars, matchVars, actionVars, tickVars, listVars, configVars, countVars, labelVars>>

\* ------------------------------------------------------------ poll struct
\* an unallocated poll struct
FreePoll ==
    [name |-> "", pc |-> "free", callbackOnStart |-> FALSE, cancelClosed |-> FALSE,
     doneClosed |-> FALSE, tickerStopped |-> FALSE, tick |-> FALSE, called |-> FALSE]

\* a poll struct that no map entry refers to any more and whose goroutine has
\* returned: nothing of it can be observed or act again
Collected ==
    [FreePoll EXCEPT !.pc = "exited", !.cancelClosed = TRUE, !.doneClosed = TRUE,
                     !.tickerStopped = TRUE]

\* what remains of the poll struct ps[p] when its map entry is dropped
Dropped(ps, p) == IF ps[p].pc = "exited" THEN Collected ELSE ps[p]

NewPollNoInitial(name, doInitialCallback) == [FreePoll EXCEPT !.name = name, !.pc = "start"]
\* newPoll := &poll{...} in Add; its goroutine is launched but has not run yet
NewPoll(name, doInitialCallback) ==
    [FreePoll EXCEPT !.name = name, !.pc = "start", !.callbackOnStart = doInitialCallback]

\* List(): the keys of the polls map
List == {n \in Names : polls[n] # None}

\* no pollinator call in progress
NoOp == [kind |-> "none", name |-> "", init |-> FALSE, by |-> ""]
\* no config callback in progress
NoPass == [pc |-> "none", watches |-> <<>>, listed |-> {}, i |-> 0, first |-> 0, deleted |-> {}]
\* nothing has returned yet
NoLast == [kind |-> "none", names |-> {}]
\* the call of the given kind, on the given names, has returned
Returned(kind, names) == [kind |-> kind, names |-> names]

\* ------------------------------------------------------------- stopPoll
StopPollSignalAll(ps, p) ==
    [q \in PollIds |-> [ps[q] EXCEPT !.tickerStopped = TRUE, !.cancelClosed = TRUE]]
\* stopPoll, first half: p.ticker.Stop(); close(p.cancelChan)
StopPollSignal(ps, p) ==
    [ps EXCEPT ![p].tickerStopped = TRUE, ![p].cancelClosed = TRUE]

StopAckedNoWait(p) == TRUE
\* stopPoll, second half: <-p.doneChan is passed once doneChan is closed
StopAcked(p) == pstate[p].doneClosed

AllAckedNoWait == TRUE
\* StopAll: the loop over p.polls has received from every doneChan
AllAcked == \A n \in List : pstate[polls[n]].doneClosed

\* ------------------------------------------------------ pollinator calls
\* pollinator.Add up to the point where it blocks or returns: an existing
\* poll is stopped through Delete (and Add waits in stopPoll), otherwise the
\* new poll is stored and its goroutine started
CallAdd(name, doInitialCallback, by) ==
    /\ op.kind = "none"
    /\ nextId <= MaxPolls
    /\ IF polls[name] # None
          THEN /\ pstate' = StopPollSignal(pstate, polls[name])
               /\ op' = [kind |-> "add", name |-> name, init |-> doInitialCallback, by |-> by]
               /\ UNCHANGED <<polls, nextId, last>>
          ELSE /\ pstate' = [pstate EXCEPT ![nextId] = NewPoll(name, doInitialCallback)]
               /\ polls' = [polls EXCEPT ![name] = nextId]
               /\ nextId' = nextId + 1
               /\ last' = Returned("add", {name})
               /\ UNCHANGED op

\* pollinator.Add after the inner Delete returned: delete(p.polls, name),
\* p.polls[name] = newPoll, go runPoll(newPoll)
AddResume ==
    /\ op.kind = "add"
    /\ StopAcked(polls[op.name])
    /\ pstate' = [pstate EXCEPT ![polls[op.name]] = Dropped(pstate, polls[op.name]),
                                ![nextId] = NewPoll(op.name, op.init)]
    /\ polls' = [polls EXCEPT ![op.name] = nextId]
    /\ nextId' = nextId + 1
    /\ op' = NoOp
    /\ last' = Returned("replace", {op.name})
    /\ UNCHANGED <<ctxDone, parentDone, cfgPc, pass, fsEvents, stopAllMark>>
    /\ UNCHANGED nonPollVars

DeleteFindsAlways(name) == TRUE
\* oldPoll, ok := p.polls[name] in Delete: ok
DeleteFinds(name) == polls[name] # None

\* pollinator.Delete up to the point where it blocks or returns: a missing
\* name is logged and nothing happens
CallDelete(name, by) ==
    /\ op.kind = "none"
    /\ IF DeleteFinds(name)
          THEN /\ pstate' = StopPollSignal(pstate, polls[name])
               /\ op' = [kind |-> "delete", name |-> name, init |-> FALSE, by |-> by]
               /\ UNCHANGED last
          ELSE /\ last' = Returned("delete_missing", {name})
               /\ UNCHANGED <<pstate, op>>
    /\ UNCHANGED <<polls, nextId>>

MapDeleteNothing(m, name) == m
\* delete(p.polls, name)
MapDelete(m, name) == [m EXCEPT ![name] = None]

\* pollinator.Delete after stopPoll returned: delete(p.polls, name)
DeleteResume ==
    /\ op.kind = "delete"
    /\ StopAcked(polls[op.name])
    /\ pstate' = [pstate EXCEPT ![polls[op.name]] = Dropped(pstate, polls[op.name])]
    /\ polls' = MapDelete(polls, op.name)
    /\ op' = NoOp
    /\ last' = Returned("delete", {op.name})
    /\ UNCHANGED <<nextId, ctxDone, parentDone, cfgPc, pass, fsEvents, stopAllMark>>
    /\ UNCHANGED nonPollVars

\* the orchestrator thread is not inside a pollinator call or a config callback
ThreadIdle == op.kind = "none" /\ pass.pc = "none"

\* Add called by the owner of the pollinator
Add(name, doInitialCallback) ==
    /\ ThreadIdle
    /\ CallAdd(name, doInitialCallback, "direct")
    /\ UNCHANGED <<ctxDone, parentDone, cfgPc, pass, fsEvents, stopAllMark>>
    /\ UNCHANGED nonPollVars

\* Delete called by the owner of the pollinator
Delete(name) ==
    /\ ThreadIdle
    /\ CallDelete(name, "direct")
    /\ UNCHANGED <<ctxDone, parentDone, cfgPc, pass, fsEvents, stopAllMark>>
    /\ UNCHANGED nonPollVars

\* StopAll up to the wait loop: p.cancelCtx()
StopAll ==
    /\ ThreadIdle
    /\ ctxDone' = TRUE
    /\ op' = [kind |-> "stopall", name |-> "", init |-> FALSE, by |-> "direct"]
    /\ UNCHANGED <<polls, pstate, nextId, parentDone, cfgPc, pass, fsEvents, last,
                   stopAllMark>>
    /\ UNCHANGED nonPollVars

\* StopAll returns: every <-poll.doneChan of the loop has been passed
StopAllResume ==
    /\ op.kind = "stopall"
    /\ AllAcked
    /\ stopAllMark' = nextId
    /\ op' = NoOp
    /\ last' = Returned("stopall", List)
    /\ UNCHANGED <<polls, pstate, nextId, ctxDone, parentDone, cfgPc, pass, fsEvents>>
    /\ UNCHANGED nonPollVars

\* ------------------------------------------------------------- runPoll
InitialCallbackUnlessCancelled(p) ==
    pstate[p].callbackOnStart /\ ~pstate[p].cancelClosed /\ ~ctxDone
\* `if p.callbackOnStart` at the head of runPoll
InitialCallback(p) == pstate[p].callbackOnStart

\* the goroutine starts: the initial callback is run when callbackOnStart is set
RunPollStart(p) ==
    /\ pstate[p].pc = "start"
    /\ pstate' = IF InitialCallback(p)
                    THEN [pstate EXCEPT ![p].pc = "callback", ![p].called = TRUE]
                    ELSE [pstate EXCEPT ![p].pc = "select"]
    /\ UNCHANGED <<polls, nextId, ctxDone, parentDone, op, cfgPc, pass, fsEvents,
                   last, stopAllMark>>
\* the start of the goroutine of a poll whose callback is left abstract
PollStart(p) == RunPollStart(p) /\ UNCHANGED nonPollVars

\* p.callback(t) returns
RunPollCallbackReturn(p) ==
    /\ pstate[p].pc = "callback"
    /\ pstate' = [pstate EXCEPT ![p].pc = "select"]
    /\ UNCHANGED <<polls, nextId, ctxDone, parentDone, op, cfgPc, pass, fsEvents,
                   last, stopAllMark>>
\* the return of a callback that is left abstract
PollCallbackReturn(p) == RunPollCallbackReturn(p) /\ UNCHANGED nonPollVars

CtxDoneNever(p) == FALSE
\* the case <-p.ctx.Done() of the select can proceed
CtxDoneReady(p) == ctxDone

\* select: case <-p.ctx.Done(): close(p.doneChan); return
PollCtxDone(p) ==
    /\ pstate[p].pc = "select"
    /\ CtxDoneReady(p)
    /\ pstate' = [pstate EXCEPT ![p].pc = "exited", ![p].doneClosed = TRUE]
    /\ UNCHANGED <<polls, nextId, ctxDone, parentDone, op, cfgPc, pass, fsEvents,
                   last, stopAllMark>>
    /\ UNCHANGED nonPollVars

\* select: case <-p.cancelChan: close(p.doneChan); return
PollCancelled(p) ==
    /\ pstate[p].pc = "select"
    /\ pstate[p].cancelClosed
    /\ pstate' = [pstate EXCEPT ![p].pc = "exited", ![p].doneClosed = TRUE]
    /\ UNCHANGED <<polls, nextId, ctxDone, parentDone, op, cfgPc, pass, fsEvents,
                   last, stopAllMark>>
    /\ UNCHANGED nonPollVars

\* select: case t := <-p.ticker.C: p.callback(t)
RunPollTick(p) ==
    /\ pstate[p].pc = "select"
    /\ pstate[p].tick
    /\ pstate' = [pstate EXCEPT ![p].pc = "callback", ![p].tick = FALSE, ![p].called = TRUE]
    /\ UNCHANGED <<polls, nextId, ctxDone, parentDone, op, cfgPc, pass, fsEvents,
                   last, stopAllMark>>
\* a tick of a poll whose callback is left abstract
PollTick(p) == RunPollTick(p) /\ UNCHANGED nonPollVars

\* the ticker of a poll fires: a tick is put in ticker.C (capacity 1) unless
\* the ticker was stopped or a tick is still waiting; the ticks of a poll
\* whose goroutine has returned are received by nobody and are left out
TickerFire(p) ==
    /\ pstate[p].pc \notin {"free", "exited"}
    /\ ~pstate[p].tickerStopped
    /\ ~pstate[p].tick
    /\ pstate' = [pstate EXCEPT ![p].tick = TRUE]
    /\ UNCHANGED <<polls, nextId, ctxDone, parentDone, op, cfgPc, pass, fsEvents,
                   last, stopAllMark>>
    /\ UNCHANGED nonPollVars

\* the context the pollinator was created from is cancelled, and with it the
\* derived pollinator.ctx
CancelParent ==
    /\ ~parentDone
    /\ parentDone' = TRUE
    /\ ctxDone' = TRUE
    /\ UNCHANGED <<polls, pstate, nextId, op, cfgPc, pass, fsEvents, last,
                   stopAllMark>>
    /\ UNCHANGED nonPollVars

\* ------------------------------------------- watchinator.getConfigCallback
\* the watch names of the configs that Config.Validate accepts: at least one
\* watch, every name non-empty; a name may occur more than once
Configs == UNION {[1..k -> Names] : k \in 1..MaxWatches}

NeedsToBeDeletedNever(p, watches) == FALSE
\* needsToBeDeleted of the first loop: no watch of the config has the name p
NeedsToBeDeleted(p, watches) == \A i \in 1..Len(watches) : p # watches[i].Name

PassPcAddFirst(listed) == "adding"
\* the callback runs the loop over pollinator.List() to its end, then the
\* loop over c.Watches
PassPc(listed) == IF listed # {} THEN "deleting" ELSE "adding"

ReconcileNoInitialCallback == FALSE
\* the doInitialCallback argument of the Add calls of the callback
ReconcileInitialCallback == TRUE

AfterInvokeAsync == "loop"
\* callback(config) is a plain call: Watch continues when it has returned
AfterInvoke == "callback"

\* the watches of a config with the given names
AsWatches(names) == [i \in 1..Len(names) |-> [Name |-> names[i]]]

\* callback(config) is entered for a config of the given watches:
\* w.pollinator.List() is taken
StartPassWith(watches) ==
    /\ nextId + Len(watches) - 1 <= MaxPolls
    /\ pass' = [pc |-> PassPc(List), watches |-> watches, listed |-> List,
                i |-> 1, first |-> nextId, deleted |-> {}]
    /\ cfgPc' = AfterInvoke
\* callback(config) is entered for a config whose watches have the given names
StartPass(names) == StartPassWith(AsWatches(names))

\* one iteration of `for _, p := range w.pollinator.List()`, in the (random)
\* order of the map iteration that built the list
RecVisit ==
    /\ pass.pc = "deleting"
    /\ op.kind = "none"
    /\ \E p \in pass.listed :
          /\ IF NeedsToBeDeleted(p, pass.watches)
                THEN CallDelete(p, "pass")
                ELSE UNCHANGED <<polls, pstate, nextId, op, last>>
          /\ pass' = [pass EXCEPT !.listed = @ \ {p}, !.pc = PassPc(pass.listed \ {p}),
                                   !.deleted = IF NeedsToBeDeleted(p, pass.watches)
                                                  THEN @ \cup {p} ELSE @]
    /\ UNCHANGED <<ctxDone, parentDone, cfgPc, fsEvents, stopAllMark>>
    /\ UNCHANGED nonPollVars

\* one iteration of `for _, watch := range c.Watches`
RecAdd ==
    /\ pass.pc = "adding"
    /\ pass.i <= Len(pass.watches)
    /\ CallAdd(pass.watches[pass.i].Name, ReconcileInitialCallback, "pass")
    /\ pass' = [pass EXCEPT !.i = @ + 1]
    /\ UNCHANGED <<ctxDone, parentDone, cfgPc, fsEvents, stopAllMark>>
    /\ UNCHANGED nonPollVars

\* the callback returns to configinator.Watch
RecReturn ==
    /\ pass.pc = "adding"
    /\ op.kind = "none"
    /\ pass.i > Len(pass.watches)
    /\ last' = Returned("reconcile", {pass.watches[i].Name : i \in 1..Len(pass.watches)})
    /\ pass' = NoPass
    /\ cfgPc' = IF cfgPc = "callback" THEN "loop" ELSE cfgPc
    /\ UNCHANGED <<polls, pstate, nextId, ctxDone, parentDone, op, fsEvents, stopAllMark>>
    /\ UNCHANGED nonPollVars

\* ---------------------------------------------------- configinator.Watch
\* Watch is called: the watcher is set up and the initial config loaded; a
\* config that does not load or validate makes Watch return the error
WatchStart(names, loaded) ==
    /\ cfgPc = "init"
    /\ ThreadIdle
    /\ IF loaded
          THEN StartPass(names)
          ELSE /\ cfgPc' = "returned"
               /\ UNCHANGED pass
    /\ UNCHANGED <<polls, pstate, nextId, ctxDone, parentDone, op, fsEvents, last, stopAllMark>>
    /\ UNCHANGED nonPollVars

\* the config file is touched: fsnotify queues an event
FsEvent ==
    /\ cfgPc \in {"loop", "callback"}
    /\ fsEvents < MaxEvents
    /\ fsEvents' = fsEvents + 1
    /\ UNCHANGED <<polls, pstate, nextId, ctxDone, parentDone, op, cfgPc, pass, last,
                   stopAllMark>>
    /\ UNCHANGED nonPollVars

\* select: case event := <-w.Events. Events that are not writes are skipped,
\* a config that fails to load or validate is logged and skipped, a valid
\* config is handed to the callback
HandleEvent(isWrite, names, loaded) ==
    /\ cfgPc = "loop"
    /\ op.kind = "none"
    /\ fsEvents > 0
    /\ fsEvents' = fsEvents - 1
    /\ IF isWrite /\ loaded
          THEN StartPass(names)
          ELSE UNCHANGED <<cfgPc, pass>>
    /\ UNCHANGED <<polls, pstate, nextId, ctxDone, parentDone, op, last, stopAllMark>>
    /\ UNCHANGED nonPollVars

\* select: case <-ctx.Done(): return ctx.Err()
WatchCtxDone ==
    /\ cfgPc = "loop"
    /\ op.kind = "none"
    /\ parentDone
    /\ cfgPc' = "returned"
    /\ fsEvents' = 0
    /\ UNCHANGED <<polls, pstate, nextId, ctxDone, parentDone, op, pass, last,
                   stopAllMark>>
    /\ UNCHANGED nonPollVars

\* select: case err := <-w.Errors: return err
WatcherError ==
    /\ cfgPc = "loop"
    /\ op.kind = "none"
    /\ cfgPc' = "returned"
    /\ fsEvents' = 0
    /\ UNCHANGED <<polls, pstate, nextId, ctxDone, parentDone, op, pass, last,
                   stopAllMark>>
    /\ UNCHANGED nonPollVars

\* ------------------------------------------------------------ matchinator
\* the GitHubItems of the bounded runs, told apart by their number
Items == {[Number |-> n] : n \in 1..MaxItems}
\* the Name field of the GitHubItemMatchers of the bounded runs
MatcherNames == {"p", "q"}
\* GitHubItemMatcher: a Name and a Matcher func(i *GitHubItem) bool
GitHubItemMatchers == [Name : MatcherNames, Matcher : [Items -> BOOLEAN]]

\* no Matches call has returned yet
NoResult == [called |-> FALSE, ok |-> FALSE, reason |-> <<>>, evaluated |-> {}]

\* fmt.Sprintf("did not match %s", m.Name); the empty string is <<>>
DidNotMatch(name) == <<"did not match ", name>>

MatchesLastFailing(funcs, it) ==
    LET failing == {k \in 1..Len(funcs) : ~funcs[k].Matcher[it]}
        lastFailing == CHOOSE k \in failing : \A j \in failing : j <= k
    IN  IF failing = {}
           THEN [called |-> TRUE, ok |-> TRUE, reason |-> <<>>, evaluated |-> 1..Len(funcs)]
           ELSE [called |-> TRUE, ok |-> FALSE, reason |-> DidNotMatch(funcs[lastFailing].Name),
                 evaluated |-> 1..Len(funcs)]

RECURSIVE MatchesFrom(_, _, _)
\* the loop of Matches from the k-th matcher on; evaluated is the set of
\* positions whose Matcher was called
MatchesFrom(funcs, it, k) ==
    IF k > Len(funcs)
       THEN [called |-> TRUE, ok |-> TRUE, reason |-> <<>>, evaluated |-> 1..Len(funcs)]
       ELSE IF ~funcs[k].Matcher[it]
               THEN [called |-> TRUE, ok |-> FALSE, reason |-> DidNotMatch(funcs[k].Name),
                     evaluated |-> 1..k]
               ELSE MatchesFrom(funcs, it, k + 1)

\* matchinator.Matches(item)
Matches(funcs, it) == MatchesFrom(funcs, it, 1)

\* the matchinator struct as a value
Matchinator(funcs, body, labels) ==
    [matchFuncs |-> funcs, hasBodyRegex |-> body, hasRequiredLabels |-> labels]
\* &matchinator{matchFuncs: []GitHubItemMatcher{}}: both flags are zero values
EmptyMatchinator == Matchinator(<<>>, FALSE, FALSE)
\* the matchinator the variables hold
TheMatchinator == Matchinator(matchFuncs, hasBodyRegex, hasRequiredLabels)
\* no Watch: the matchinator was put together by direct calls
NoWatch == [built |-> FALSE]

\* the receiver of the With* calls becomes m
Becomes(m) ==
    /\ matchFuncs' = m.matchFuncs
    /\ hasBodyRegex' = m.hasBodyRegex
    /\ hasRequiredLabels' = m.hasRequiredLabels

\* NewMatchinator(): a matchinator without matchers
NewMatchinator ==
    /\ matchFuncs # <<>>
    /\ Becomes(EmptyMatchinator)
    /\ watch' = NoWatch
    /\ result' = NoResult
    /\ UNCHANGED item
    /\ UNCHANGED nonMatchVars

\* m.WithMatchFunc(match)
WithMatchFunc(match) ==
    /\ Len(matchFuncs) < MaxFuncs
    /\ matchFuncs' = Append(matchFuncs, match)
    /\ watch' = NoWatch
    /\ result' = NoResult
    /\ UNCHANGED <<hasBodyRegex, hasRequiredLabels, item>>
    /\ UNCHANGED nonMatchVars

\* m.Matches(it) is called and returns
CallMatches(it) ==
    /\ item' = it
    /\ result' = Matches(matchFuncs, it)
    /\ UNCHANGED <<matchFuncs, hasBodyRegex, hasRequiredLabels, watch>>
    /\ UNCHANGED nonMatchVars

\* ------------------------------------------- the matchers of a Watch
\* the texts of the bounded runs: titles and bodies, in both cases
Texts == {"bug", "BUG"}
\* strings.ToLower
ToLower(s) == IF s = "BUG" THEN "bug" ELSE s
\* the compiled regular expressions of the bounded runs: the literal patterns
Regexes == {"bug", "BUG"}
\* regexp.Match for a literal pattern over the bounded texts: the text
\* contains the pattern, in the same case
RegexMatch(r, s) == s = r
\* label names
LabelNames == {"l1"}
\* the GitHubItem fields the matchers read; Body is "" and Labels is empty
\* until ListIssues has fetched them
GitHubItems == [Title : Texts, Body : Texts \cup {""}, Labels : SUBSET LabelNames]
\* GitHubItemAsLabelSet, for the keys the selectors of the bounded runs use
GitHubItemAsLabelSet(i) == [k \in {"title", "body"} |-> IF k = "title" THEN i.Title ELSE i.Body]
\* labels.Selector with one equality requirement, key=value
Selectors == {[key |-> "title", value |-> "bug"], [key |-> "body", value |-> "bug"]}
\* labels.Selector.Matches(set)
SelectorMatches(s, set) == s.key \in DOMAIN set /\ set[s.key] = s.value

\* the prefixes of the matcher names
KindSelector == "selector: "
KindBodyRegex == "bodyRegex: "
KindTitleRegex == "titleRegex: "
KindRequiredLabel == "requiredLabel: "

\* SelectorAsGitHubItemMatcher(s)
SelectorAsGitHubItemMatcher(s) ==
    [Name |-> <<KindSelector, s>>,
     Matcher |-> [i \in GitHubItems |-> SelectorMatches(s, GitHubItemAsLabelSet(i))]]
\* BodyRegexAsGitHubItemMatcher(bodyRegex)
BodyRegexAsGitHubItemMatcher(bodyRegex) ==
    [Name |-> <<KindBodyRegex, bodyRegex>>,
     Matcher |-> [i \in GitHubItems |-> RegexMatch(bodyRegex, ToLower(i.Body))]]
\* TitleRegexAsGitHubItemMatcher(titleRegex)
TitleRegexAsGitHubItemMatcher(titleRegex) ==
    [Name |-> <<KindTitleRegex, titleRegex>>,
     Matcher |-> [i \in GitHubItems |-> RegexMatch(titleRegex, ToLower(i.Title))]]
\* RequiredLabelAsGitHubItemMatcher(requiredLabel)
RequiredLabelAsGitHubItemMatcher(requiredLabel) ==
    [Name |-> <<KindRequiredLabel, requiredLabel>>,
     Matcher |-> [i \in GitHubItems |-> requiredLabel \in i.Labels]]
\* a matcher given to WithMatchFunc directly
NeverMatcher == [Name |-> <<"never">>, Matcher |-> [i \in GitHubItems |-> FALSE]]

\* WithSelectors(selectors...) applied to the matchinator m
WithSelectors(m, selectors) ==
    IF Len(selectors) = 0
       THEN m
       ELSE [m EXCEPT !.matchFuncs = @ \o [k \in 1..Len(selectors) |-> SelectorAsGitHubItemMatcher(selectors[k])]]

WithBodyRegexesAlways(m, bodyRegexes) ==
    [m EXCEPT !.hasBodyRegex = TRUE,
              !.matchFuncs = @ \o [k \in 1..Len(bodyRegexes) |-> BodyRegexAsGitHubItemMatcher(bodyRegexes[k])]]
\* WithBodyRegexes(bodyRegexes...) applied to the matchinator m
WithBodyRegexes(m, bodyRegexes) ==
    IF Len(bodyRegexes) = 0
       THEN m
       ELSE [m EXCEPT !.hasBodyRegex = TRUE,
                      !.matchFuncs = @ \o [k \in 1..Len(bodyRegexes) |-> BodyRegexAsGitHubItemMatcher(bodyRegexes[k])]]

\* WithTitleRegexes(titleRegexes...) applied to the matchinator m
WithTitleRegexes(m, titleRegexes) ==
    IF Len(titleRegexes) = 0
       THEN m
       ELSE [m EXCEPT !.matchFuncs = @ \o [k \in 1..Len(titleRegexes) |-> TitleRegexAsGitHubItemMatcher(titleRegexes[k])]]

\* WithRequiredLabels(labels...) applied to the matchinator m
WithRequiredLabels(m, labels) ==
    IF Len(labels) = 0
       THEN m
       ELSE [m EXCEPT !.hasRequiredLabels = TRUE,
                      !.matchFuncs = @ \o [k \in 1..Len(labels) |-> RequiredLabelAsGitHubItemMatcher(labels[k])]]

\* the lists of at most n elements of S
ListsOf(S, n) == UNION {[1..k -> S] : k \in 0..n}
\* the lists of at most one element of S
AtMostOne(S) == {<<>>} \cup {<<x>> : x \in S}
\* the fields of a populated Watch that GetMatchinator reads
Watches ==
    [built : {TRUE},
     selectors : ListsOf(Selectors, MaxList),
     bodyRegex : ListsOf(Regexes, MaxList),
     titleRegex : ListsOf(Regexes, MaxList),
     RequiredLabels : ListsOf(LabelNames, MaxList)]

GetMatchinatorSelectorsFirst(w) ==
    WithRequiredLabels(
        WithTitleRegexes(
            WithBodyRegexes(
                WithSelectors(EmptyMatchinator, w.selectors),
                w.bodyRegex),
            w.titleRegex),
        w.RequiredLabels)
\* Watch.GetMatchinator(): the chain of With* calls on a new matchinator
GetMatchinator(w) ==
    WithRequiredLabels(
        WithSelectors(
            WithTitleRegexes(
                WithBodyRegexes(EmptyMatchinator, w.bodyRegex),
                w.titleRegex),
            w.selectors),
        w.RequiredLabels)

\* one With* call on the matchinator of the variables
CallWith(m) ==
    /\ Len(m.matchFuncs) <= MaxFuncs
    /\ Becomes(m)
    /\ watch' = NoWatch
    /\ result' = NoResult
    /\ UNCHANGED item
    /\ UNCHANGED nonMatchVars
CallWithSelectors(selectors) == CallWith(WithSelectors(TheMatchinator, selectors))
CallWithBodyRegexes(bodyRegexes) == CallWith(WithBodyRegexes(TheMatchinator, bodyRegexes))
CallWithTitleRegexes(titleRegexes) == CallWith(WithTitleRegexes(TheMatchinator, titleRegexes))
CallWithRequiredLabels(labels) == CallWith(WithRequiredLabels(TheMatchinator, labels))

\* matchinator := watch.GetMatchinator(): the chain starts from a matchinator
\* of its own, so the call is taken from the empty one only
CallGetMatchinator(w) ==
    /\ matchFuncs = <<>>
    /\ Becomes(GetMatchinator(w))
    /\ watch' = w
    /\ result' = NoResult
    /\ UNCHANGED item
    /\ UNCHANGED nonMatchVars

\* ---------------------------------------------------------- actioninator
\* the goroutines that call Handle
Callers == 1..MaxCallers
\* the unlocked actionLock
Unlocked == 0
\* a nil error; an error is the sequence of the parts of its message
Nil == <<>>
\* errors.New("my test error"): the error a collaborator fails with
TestError == <<"my test error">>
\* ctx.Err() of a cancelled context, as a collaborator returns it
Canceled == <<"context canceled">>
\* fmt.Errorf(prefix + "%w", err)
Wrap(prefix, err) == <<prefix>> \o err
\* githubv4.SubscriptionState
SubscriptionStates == {"SUBSCRIBED", "UNSUBSCRIBED", "IGNORED"}

\* a goroutine of the errgroup that g.Go has not started yet
NoGo == [pc |-> "none", err |-> Nil, calls |-> 0, callErr |-> Nil, sent |-> FALSE]
\* a caller that is not inside Handle and has not called it yet
NoHandle ==
    [pc |-> "idle", item |-> [Subscription |-> "UNSUBSCRIBED"], started |-> 0,
     gctxDone |-> FALSE,
     err |-> Nil, go |-> <<>>, ret |-> Nil]

\* Watch.GetActioninator: the subscribe action, then the email action, each
\* if enabled
GetActioninator(subscribeEnabled, emailEnabled) ==
    (IF subscribeEnabled THEN <<"subscribe">> ELSE <<>>)
        \o (IF emailEnabled THEN <<"email">> ELSE <<>>)

NeverSubscribed(i) == FALSE
\* i.Subscription == githubv4.SubscriptionStateSubscribed
AlreadySubscribed(i) == i.Subscription = "SUBSCRIBED"

LockFreeAlways == TRUE
\* a.actionLock.Lock() can be passed
LockFree == actionLock = Unlocked

\* a collaborator call that takes ctx: the request of a cancelled context
\* fails with the context's error, otherwise the collaborator answers
WithCtx(done, answer) == IF done THEN Canceled ELSE answer

\* the callers of c's errgroup that have not returned
Running(c) == {k \in 1..Len(handle[c].go) : handle[c].go[k].pc # "done"}
\* caller c is between Lock and Unlock
InHandle(c) == handle[c].pc = "go"

\* a caller calls a.Handle(ctx, item, logger) and reaches a.actionLock.Lock()
HandleCall(c, subscription) ==
    /\ handle[c].pc \in {"idle", "returned"}
    /\ handle' = [handle EXCEPT ![c] = [NoHandle EXCEPT !.pc = "lock",
                                                        !.item.Subscription = subscription]]
    /\ UNCHANGED <<actions, actionLock, handleCtxDone, setSubscriptionError, newMsgError,
                   sendError>>
    /\ UNCHANGED nonActionVars

\* Lock() returns; g, gctx := errgroup.WithContext(ctx); g.SetLimit(len(a.actions))
HandleLock(c) ==
    /\ handle[c].pc = "lock"
    /\ LockFree
    /\ actionLock' = c
    /\ handle' = [handle EXCEPT ![c].pc = "go",
                                ![c].gctxDone = handleCtxDone,
                                ![c].go = [k \in 1..Len(actions) |-> NoGo]]
    /\ UNCHANGED <<actions, handleCtxDone, setSubscriptionError, newMsgError, sendError>>
    /\ UNCHANGED nonActionVars

SetLimitOne == IF actions = <<>> THEN 0 ELSE 1
\* g.SetLimit(len(a.actions)): the number of goroutines of the errgroup that
\* may be active at once
SetLimit == Len(actions)

\* one iteration of `for _, _action := range a.actions`: g.Go blocks until
\* fewer goroutines than the limit are active, then starts the goroutine of
\* the next action
HandleGo(c) ==
    /\ InHandle(c)
    /\ handle[c].started < Len(actions)
    /\ Cardinality(Running(c) \cap 1..handle[c].started) < SetLimit
    /\ handle' = [handle EXCEPT ![c].started = @ + 1,
                                ![c].go[handle[c].started + 1].pc = "run"]
    /\ UNCHANGED <<actions, actionLock, handleCtxDone, setSubscriptionError, newMsgError,
                   sendError>>
    /\ UNCHANGED nonActionVars

\* the errgroup after the goroutine k of caller c has returned err: the
\* first non-nil error is kept and cancels gctx
GoReturns(h, k, err, calls, callErr, sent) ==
    [h EXCEPT !.go[k] = [pc |-> "done", err |-> err, calls |-> calls,
                         callErr |-> callErr, sent |-> sent],
              !.err = IF h.err = Nil THEN err ELSE @,
              !.gctxDone = @ \/ err # Nil]

\* action.Handle(gctx, item, logger) starts: an item the user is subscribed
\* to is skipped with a nil error, otherwise the action goes on to its effect
ActionStart(c, k) ==
    /\ InHandle(c)
    /\ k \in 1..Len(handle[c].go)
    /\ handle[c].go[k].pc = "run"
    /\ handle' = [handle EXCEPT ![c] =
                     IF AlreadySubscribed(handle[c].item)
                        THEN GoReturns(@, k, Nil, 0, Nil, FALSE)
                        ELSE [@ EXCEPT !.go[k].pc = "call"]]
    /\ UNCHANGED <<actions, actionLock, handleCtxDone, setSubscriptionError, newMsgError,
                   sendError>>
    /\ UNCHANGED nonActionVars

\* the subscribe action: gh.SetSubscription(ctx, i.ID, Subscribed), whose
\* error is returned as it is
SubscribeEffect(h, k) ==
    LET err == WithCtx(h.gctxDone, setSubscriptionError)
    IN  GoReturns(h, k, err, 1, err, FALSE)

\* the email action: emailinator.NewMsg(), then emailinator.Send(ctx, m); an
\* error of either is wrapped
EmailEffect(h, k) ==
    IF newMsgError # Nil
       THEN GoReturns(h, k, Wrap("unable to create new message: ", newMsgError), 0, Nil, FALSE)
       ELSE LET err == WithCtx(h.gctxDone, sendError)
            IN  GoReturns(h, k,
                          IF err # Nil THEN Wrap("unable to send message: ", err) ELSE Nil,
                          1, err, err = Nil)

\* the effect of the action k of caller c, and the return of its goroutine
ActionEffect(c, k) ==
    /\ InHandle(c)
    /\ k \in 1..Len(handle[c].go)
    /\ handle[c].go[k].pc = "call"
    /\ handle' = [handle EXCEPT ![c] =
                     IF actions[k] = "subscribe" THEN SubscribeEffect(@, k)
                                                 ELSE EmailEffect(@, k)]
    /\ UNCHANGED <<actions, actionLock, handleCtxDone, setSubscriptionError, newMsgError,
                   sendError>>
    /\ UNCHANGED nonActionVars

\* g.Wait() returns the first error once every goroutine has returned; the
\* deferred Unlock runs and Handle returns that error
HandleReturn(c) ==
    /\ InHandle(c)
    /\ handle[c].started = Len(actions)
    /\ Running(c) = {}
    /\ actionLock' = Unlocked
    /\ handle' = [handle EXCEPT ![c].pc = "returned",
                                ![c].gctxDone = TRUE,
                                ![c].ret = handle[c].err]
    /\ UNCHANGED <<actions, handleCtxDone, setSubscriptionError, newMsgError, sendError>>
    /\ UNCHANGED nonActionVars

\* the context of the callers is cancelled, and with it every gctx derived
\* from it
CancelHandleCtx ==
    /\ ~handleCtxDone
    /\ handleCtxDone' = TRUE
    /\ handle' = [c \in Callers |->
                     IF InHandle(c) THEN [handle[c] EXCEPT !.gctxDone = TRUE] ELSE handle[c]]
    /\ UNCHANGED <<actions, actionLock, setSubscriptionError, newMsgError, sendError>>
    /\ UNCHANGED nonActionVars

\* ------------------------------------------- watchinator.getPollCallback
\* no invocation of the poll callback is running
NoCallback ==
    [pc |-> "idle", r |-> 0, i |-> 0, n |-> 0, fetched |-> {}, failed |-> {},
     listed |-> {}, handled |-> {}, errors |-> 0]
\* the callback is entered: `for _, r := range watch.Repositories` starts
NewCallback == [NoCallback EXCEPT !.pc = "repo", !.r = 1]
\* no invocation of the poll callback has returned
NoTick == [returned |-> FALSE, errored |-> FALSE]

AbortTick(r) == Len(repositories) + 1
\* `continue` after a ListIssues error: the loop goes on with the next
\* repository
AfterListError(r) == r + 1

SkipIssues(i, n) == n + 1
\* the loop over the issues after Handle returned an error: the next issue
AfterHandleError(i, n) == i + 1

\* go runPoll(newPoll) with the callback of getPollCallback
TickStart(p) ==
    /\ RunPollStart(p)
    /\ callback' = IF InitialCallback(p) THEN NewCallback ELSE callback
    /\ UNCHANGED <<repositories, lastTick>>
    /\ UNCHANGED nonTickVars

\* case t := <-p.ticker.C with the callback of getPollCallback
TickTick(p) ==
    /\ RunPollTick(p)
    /\ callback' = NewCallback
    /\ UNCHANGED <<repositories, lastTick>>
    /\ UNCHANGED nonTickVars

\* issues, err := gh.ListIssues(ctx, r, filter, matchinator) for the next
\* repository: it fails (always when ctx is cancelled), or it returns n issues
CallbackListIssues(p, ok, n) ==
    /\ pstate[p].pc = "callback"
    /\ callback.pc = "repo"
    /\ callback.r <= Len(repositories)
    /\ ok => ~parentDone
    /\ ~ok => n = 0
    /\ callback' =
           IF ~ok
              THEN [callback EXCEPT !.fetched = @ \cup {callback.r},
                                    !.failed = @ \cup {callback.r},
                                    !.errors = @ + 1,
                                    !.r = AfterListError(callback.r)]
              ELSE IF n = 0
                      THEN [callback EXCEPT !.fetched = @ \cup {callback.r}, !.r = @ + 1]
                      ELSE [callback EXCEPT !.fetched = @ \cup {callback.r},
                                            !.listed = @ \cup {<<callback.r, k>> : k \in 1..n},
                                            !.pc = "issues", !.i = 1, !.n = n]
    /\ UNCHANGED <<repositories, lastTick>>
    /\ UNCHANGED pollVars
    /\ UNCHANGED nonTickVars

\* actioninator.Handle(ctx, *i, issueLogger) for the next issue of the
\* repository: an error is logged and counted
CallbackHandle(p, ok) ==
    /\ pstate[p].pc = "callback"
    /\ callback.pc = "issues"
    /\ LET next == IF ok THEN callback.i + 1 ELSE AfterHandleError(callback.i, callback.n)
           c == [callback EXCEPT !.handled = @ \cup {<<callback.r, callback.i>>},
                                 !.errors = IF ok THEN @ ELSE @ + 1,
                                 !.i = next]
       IN  callback' = IF next > callback.n
                          THEN [c EXCEPT !.pc = "repo", !.r = @ + 1, !.i = 0, !.n = 0]
                          ELSE c
    /\ UNCHANGED <<repositories, lastTick>>
    /\ UNCHANGED pollVars
    /\ UNCHANGED nonTickVars

\* the loop over watch.Repositories ends and the callback returns to runPoll
CallbackReturn(p) ==
    /\ callback.pc = "repo"
    /\ callback.r > Len(repositories)
    /\ RunPollCallbackReturn(p)
    /\ lastTick' = [returned |-> TRUE, errored |-> callback.errors > 0]
    /\ callback' = NoCallback
    /\ UNCHANGED repositories
    /\ UNCHANGED nonTickVars

\* ------------------------------------------------ gitHubinator.ListIssues
\* no ListIssues call has been made
NoList ==
    [pc |-> "idle", total |-> 0, next |-> 1, page |-> {}, hasNextPage |-> FALSE,
     id |-> 0, item |-> [Title |-> "bug", Body |-> "", Labels |-> {}],
     labels |-> FALSE, body |-> FALSE, allIssues |-> <<>>, evals |-> {},
     ret |-> [err |-> FALSE, issues |-> <<>>]]

HasRequiredLabelsNever(m) == FALSE
\* matcher.HasRequiredLabels()
HasRequiredLabels(m) == m.hasRequiredLabels

\* matcher.HasBodyRegex()
HasBodyRegex(m) == m.hasBodyRegex

KeepsAll(matches) == TRUE
\* `if matches, reason := matcher.Matches(item); !matches { continue }`: the
\* item goes on to allIssues only when it matches
Keeps(matches) == matches

\* where the loop body goes after the labels: to the body fetch when the
\* matcher has a body regex, else to Matches
AfterLabels == IF HasBodyRegex(TheMatchinator) THEN "body" ELSE "match"
\* where the loop body starts for an item: at the label fetch when the
\* matcher has required labels
AfterItem == IF HasRequiredLabels(TheMatchinator) THEN "labels" ELSE AfterLabels
ReturnPartial == [list EXCEPT !.pc = "returned", !.ret = [err |-> TRUE, issues |-> list.allIssues]]
\* return nil, err
ReturnErr == [list EXCEPT !.pc = "returned", !.ret = [err |-> TRUE, issues |-> <<>>]]

\* gh.ListIssues(ctx, ghr, filter, matcher) is called for a repository that
\* has n issues passing the filter
ListIssuesCall(n) ==
    /\ list.pc \in {"idle", "returned"}
    /\ list' = [NoList EXCEPT !.pc = "query", !.total = n]
    /\ UNCHANGED nonListVars

\* the head of the loop: ctx.Done() returns the context error; otherwise the
\* list issues query is sent and fails, or answers with the next page
ListQuery(ok) ==
    /\ list.pc = "query"
    /\ ok => ~parentDone
    /\ list' =
           IF ~ok
              THEN ReturnErr
              ELSE LET end == IF list.next + PageSize - 1 < list.total
                                  THEN list.next + PageSize - 1 ELSE list.total
                   IN  [list EXCEPT !.pc = "item", !.page = list.next..end,
                                    !.next = end + 1, !.hasNextPage = end < list.total]
    /\ UNCHANGED nonListVars

\* one iteration of `for id, issue := range query.AsGitHubIssues()` starts,
\* in the order of the map: the item has the fields of the query, no body
\* and no labels
ListItem(id, title) ==
    /\ list.pc = "item"
    /\ id \in list.page
    /\ list' = [list EXCEPT !.pc = AfterItem, !.page = @ \ {id}, !.id = id,
                            !.item = [Title |-> title, Body |-> "", Labels |-> {}],
                            !.labels = FALSE, !.body = FALSE]
    /\ UNCHANGED nonListVars

\* labels, err := gh.listIssueLabels(ctx, ghr, issue.Number)
ListLabels(ok, labels) ==
    /\ list.pc = "labels"
    /\ ok => ~parentDone
    /\ list' = IF ~ok
                  THEN ReturnErr
                  ELSE [list EXCEPT !.pc = AfterLabels, !.item.Labels = labels,
                                    !.labels = TRUE]
    /\ UNCHANGED nonListVars

\* bodyText, err := gh.getIssueBody(ctx, ghr, issue.Number), before Matches
ListBody(ok, body) ==
    /\ list.pc = "body"
    /\ ok => ~parentDone
    /\ list' = IF ~ok
                  THEN ReturnErr
                  ELSE [list EXCEPT !.pc = "match", !.item.Body = body, !.body = TRUE]
    /\ UNCHANGED nonListVars

\* matcher.Matches(item): an item that does not match is filtered out
ListMatch ==
    /\ list.pc = "match"
    /\ LET matches == Matches(matchFuncs, list.item).ok
       IN  list' = [list EXCEPT
                       !.pc = IF Keeps(matches) THEN "fill" ELSE "item",
                       !.evals = @ \cup {[id |-> list.id, item |-> list.item,
                                          labels |-> list.labels, body |-> list.body,
                                          ok |-> matches]}]
    /\ UNCHANGED nonListVars

\* bodyText, err := gh.getIssueBody(ctx, ghr, issue.Number) for an item that
\* matched; allIssues = append(allIssues, item)
ListFill(ok, body) ==
    /\ list.pc = "fill"
    /\ ok => ~parentDone
    /\ list' = IF ~ok
                  THEN ReturnErr
                  ELSE [list EXCEPT !.pc = "item", !.item.Body = body,
                                    !.allIssues = Append(@, [id |-> list.id,
                                                             item |-> [list.item EXCEPT !.Body = body]])]
    /\ UNCHANGED nonListVars

\* the page is done: return allIssues, nil after the last page, else the
\* cursor moves on and the loop starts again
ListPageEnd ==
    /\ list.pc = "item"
    /\ list.page = {}
    /\ list' = IF list.hasNextPage
                  THEN [list EXCEPT !.pc = "query"]
                  ELSE [list EXCEPT !.pc = "returned",
                                    !.ret = [err |-> FALSE, issues |-> list.allIssues]]
    /\ UNCHANGED nonListVars

\* -------------------------------------------- gitHubinator.listIssueLabels
\* (*githubv4.String)(nil)
NilPointer == "nil"
\* the labels an issue has on GitHub, in the order of the label connection
IssueLabels == ListsOf({"l1", "l2"}, MaxLabels)
\* listIssueLabels has not been called
NoLabelq ==
    [pc |-> "idle", issueNumber |-> 0, labels |-> <<>>, LabelsCursor |-> NilPointer,
     cursor |-> 0, hasNextPage |-> FALSE, endCursor |-> 0, allLabels |-> <<>>,
     ret |-> [err |-> FALSE, labels |-> <<>>]]

\* the position after which the labels connection answers: the start for a
\* nil labelsCursor
After(q) == IF q.LabelsCursor = NilPointer THEN 0 ELSE q.cursor

\* gh.listIssueLabels(ctx, ghr, issueNumber) is called for an issue that has
\* the given labels
LabelsCall(issueNumber, labels) ==
    /\ labelq.pc \in {"idle", "returned"}
    /\ labelq' = [NoLabelq EXCEPT !.pc = "query", !.issueNumber = issueNumber,
                                  !.labels = labels]
    /\ UNCHANGED nonLabelVars

\* the head of the loop: ctx.Done() returns the context error; otherwise the
\* query is sent and fails, or answers with the page after the cursor, whose
\* names are appended to allLabels; without a next page allLabels is returned
LabelsQuery(ok) ==
    /\ labelq.pc = "query"
    /\ ok => ~parentDone
    /\ labelq' =
           IF ~ok
              THEN [labelq EXCEPT !.pc = "returned", !.ret = [err |-> TRUE, labels |-> <<>>]]
              ELSE LET from == After(labelq)
                       end == IF from + PageSize < Len(labelq.labels)
                                 THEN from + PageSize ELSE Len(labelq.labels)
                       all == labelq.allLabels \o SubSeq(labelq.labels, from + 1, end)
                   IN  IF end < Len(labelq.labels)
                          THEN [labelq EXCEPT !.pc = "advance", !.hasNextPage = TRUE,
                                              !.endCursor = end, !.allLabels = all]
                          ELSE [labelq EXCEPT !.pc = "returned", !.hasNextPage = FALSE,
                                              !.endCursor = end, !.allLabels = all,
                                              !.ret = [err |-> FALSE, labels |-> all]]
    /\ UNCHANGED nonLabelVars

\* *vars.LabelsCursor = query.Repository.Issue.Labels.PageInfo.EndCursor: the
\* write through a nil pointer panics, otherwise the cursor moves on and the
\* loop starts again
LabelsAdvance ==
    /\ labelq.pc = "advance"
    /\ labelq' = IF labelq.LabelsCursor = NilPointer
                    THEN [labelq EXCEPT !.pc = "panicked"]
                    ELSE [labelq EXCEPT !.pc = "query", !.cursor = labelq.endCursor]
    /\ UNCHANGED nonLabelVars

\* ------------------------------------------- Watch.ValidateAndPopulate
\* the keys of the map GitHubItemAsLabelSet builds
GitHubItemFields ==
    {"type", "repo.owner", "repo.name", "author.login", "body", "number", "title",
     "state", "subscription"}

isGitHubItemFieldAny(f) == TRUE
\* isGitHubItemField(f)
isGitHubItemField(f) == f \in GitHubItemFields

\* the selector strings of the bounded runs, as their tokens
SelectorStrings == {<<"title", "=", "bug">>, <<"unknown", "=", "bug">>, <<"(">>}
\* labels.Parse(s): key=value parses to a selector of one requirement, a
\* string that opens with a parenthesis does not parse
LabelsParse(s) ==
    IF Len(s) = 3 /\ s[2] = "="
       THEN [err |-> Nil, selector |-> [key |-> s[1], value |-> s[3]]]
       ELSE [err |-> <<"couldn't parse the selector string">>,
             selector |-> [key |-> "", value |-> ""]]

\* the regex strings of the bounded runs
Patterns == Regexes \cup {"("}
\* regexp.Compile(r): a literal compiles, an unclosed group does not
RegexpCompile(r) ==
    IF r = "("
       THEN [err |-> <<"error parsing regexp: missing closing )">>, re |-> ""]
       ELSE [err |-> Nil, re |-> r]

\* githubv4.IssueStateClosed, githubv4.IssueStateOpen
IssueStates == {"CLOSED", "OPEN"}

\* EmailActionConfig.Validate, the only part of ActionConfig.Validate that
\* can fail
ActionConfigValidate(a) ==
    IF a.Email.Enabled /\ a.Email.SendTo = ""
       THEN <<"sendTo cannot be empty if email action is enabled">>
       ELSE Nil

\* NewTestWatch(), scaled to the bounded runs, as it is unmarshalled from a
\* file: the unexported fields are empty
TestWatch ==
    [Name |-> "a", Repositories |-> <<1>>,
     Selectors |-> <<<<"title", "=", "bug">>>>, selectors |-> <<>>,
     RequiredLabels |-> <<"l1">>,
     BodyRegex |-> <<"bug">>, bodyRegex |-> <<>>,
     TitleRegex |-> <<"bug">>, titleRegex |-> <<>>,
     States |-> <<"OPEN">>,
     Actions |-> [Subscribe |-> [Enabled |-> TRUE],
                  Email |-> [Enabled |-> TRUE, SendTo |-> "test@example.com"]]]

\* the values the fields of a watch of a config file take
FileWatches ==
    [Name : Names \cup {""},
     Repositories : AtMostOne({1}),
     Selectors : AtMostOne(SelectorStrings), selectors : {<<>>},
     RequiredLabels : AtMostOne(LabelNames),
     BodyRegex : AtMostOne({"bug", "("}), bodyRegex : {<<>>},
     TitleRegex : AtMostOne({"bug", "("}), titleRegex : {<<>>},
     States : AtMostOne({"OPEN", "DRAFT"}),
     Actions : [Subscribe : {[Enabled |-> TRUE]},
                Email : {[Enabled |-> TRUE, SendTo |-> "test@example.com"],
                         [Enabled |-> TRUE, SendTo |-> ""],
                         [Enabled |-> FALSE, SendTo |-> ""]}]]
\* the fields in which w differs from TestWatch, the name aside
Deviations(w) == {f \in DOMAIN w \ {"Name"} : w[f] # TestWatch[f]}
\* the watches the config files of the bounded runs hold: TestWatch under
\* any name, with at most one other field changed
RawWatches == {w \in FileWatches : Cardinality(Deviations(w)) <= 1}

\* TestWatch with any of its filter fields left out of the file
FilterWatches ==
    {[TestWatch EXCEPT !.Selectors = s, !.BodyRegex = b, !.TitleRegex = t,
                       !.RequiredLabels = l, !.States = st] :
        s \in {<<>>, TestWatch.Selectors}, b \in {<<>>, TestWatch.BodyRegex},
        t \in {<<>>, TestWatch.TitleRegex}, l \in {<<>>, TestWatch.RequiredLabels},
        st \in {<<>>, TestWatch.States}}

\* the least element of a non-empty set of positions
First(S) == CHOOSE k \in S : \A j \in S : k <= j
\* what ValidateAndPopulate returns, and the watch as it leaves it
Validated(err, w) == [err |-> err, watch |-> w]

\* Watch.ValidateAndPopulate(ctx, gh) on the watch w, with a GitHubinator
\* whose CheckRepository returns checkRepositoryError
ValidateAndPopulate(w, checkRepositoryError) ==
    LET parsed == [k \in 1..Len(w.Selectors) |-> LabelsParse(w.Selectors[k])]
        unparsed == {k \in DOMAIN parsed : parsed[k].err # Nil}
        w1 == [w EXCEPT !.selectors =
                  [k \in 1..(IF unparsed = {} THEN Len(parsed) ELSE First(unparsed) - 1)
                      |-> parsed[k].selector]]
        unknown == {k \in DOMAIN w1.selectors : ~isGitHubItemField(w1.selectors[k].key)}
        body == [k \in 1..Len(w.BodyRegex) |-> RegexpCompile(w.BodyRegex[k])]
        badBody == {k \in DOMAIN body : body[k].err # Nil}
        w2 == [w1 EXCEPT !.bodyRegex =
                  [k \in 1..(IF badBody = {} THEN Len(body) ELSE First(badBody) - 1)
                      |-> body[k].re]]
        title == [k \in 1..Len(w.TitleRegex) |-> RegexpCompile(w.TitleRegex[k])]
        badTitle == {k \in DOMAIN title : title[k].err # Nil}
        w3 == [w2 EXCEPT !.titleRegex =
                  [k \in 1..(IF badTitle = {} THEN Len(title) ELSE First(badTitle) - 1)
                      |-> title[k].re]]
        badStates == {k \in 1..Len(w.States) : w.States[k] \notin IssueStates}
    IN  IF w.Name = ""
           THEN Validated(<<"name cannot be empty">>, w)
        ELSE IF Len(w.Repositories) = 0
           THEN Validated(<<"expected at least one repository">>, w)
        ELSE IF /\ Len(w.selectors) = 0
                /\ Len(w.bodyRegex) = 0
                /\ Len(w.RequiredLabels) = 0
                /\ Len(w.States) = 0
           THEN Validated(<<"expected at least one filter type">>, w)
        ELSE IF checkRepositoryError # Nil
           THEN Validated(Wrap("unable to validate repository: ", checkRepositoryError), w)
        ELSE IF unparsed # {}
           THEN Validated(Wrap("unable to parse label selector: ",
                               parsed[First(unparsed)].err), w1)
        ELSE IF unknown # {}
           THEN Validated(<<"unknown key '", w1.selectors[First(unknown)].key,
                            "' in selector">>, w1)
        ELSE IF badBody # {}
           THEN Validated(Wrap("unable to compile regex: ", body[First(badBody)].err), w2)
        ELSE IF badTitle # {}
           THEN Validated(Wrap("unable to compile regex: ", title[First(badTitle)].err), w3)
        ELSE IF badStates # {}
           THEN Validated(<<"unknown issue state ", w.States[First(badStates)]>>, w3)
        ELSE Validated(ActionConfigValidate(w.Actions), w3)

\* ----------------------------------- Config.Validate and loadConfig
\* loadConfig has not been called; total is the parity of
\* MetricConfigLoadTotal
NoLoad ==
    [pc |-> "idle", total |-> 0, n |-> 0, watches |-> <<>>, emailValidated |-> FALSE,
     err |-> Nil, rejected |-> <<>>]
\* the call ld of loadConfig returns nil and the error
LoadFailed(ld, err, rejected) ==
    [NoLoad EXCEPT !.pc = "failed", !.total = ld.total, !.err = err, !.rejected = rejected]

\* the fields of a populated Watch that GetMatchinator reads
AsBuilt(w) ==
    [built |-> TRUE, selectors |-> w.selectors, bodyRegex |-> w.bodyRegex,
     titleRegex |-> w.titleRegex, RequiredLabels |-> w.RequiredLabels]

\* loadConfig up to the loop over the watches of Config.Validate:
\* NewConfigFromFile reads a config of n watches; reading the file and the
\* checks of the user, the PAT and the interval fail with headError
LoadStart(n, headError) ==
    LET ld == [NoLoad EXCEPT !.total = (load.total + 1) % 2]
    IN  IF headError # Nil
           THEN LoadFailed(ld, headError, <<>>)
           ELSE IF n = 0
                   THEN LoadFailed(ld, <<"expected at least one watch">>, <<>>)
                   ELSE [ld EXCEPT !.pc = "validating", !.n = n]

\* one iteration of `for _, w := range c.Watches` of Config.Validate, on
\* the watch w of the file: ValidateAndPopulate, then Email.Validate for the
\* first watch whose email action is enabled
ValidateStep(ld, w, checkRepositoryError, emailError) ==
    LET v == ValidateAndPopulate(w, checkRepositoryError)
        email == w.Actions.Email.Enabled /\ ~ld.emailValidated
    IN  IF v.err # Nil
           THEN LoadFailed(ld, Wrap("unable to validate watch: ", v.err), <<w>>)
           ELSE IF email /\ emailError # Nil
                   THEN LoadFailed(ld, Wrap("unable to validate email sender confg: ",
                                            emailError), <<>>)
                   ELSE [ld EXCEPT !.watches = Append(@, v.watch),
                                   !.emailValidated = @ \/ email]

\* loadConfig is called by configinator.Watch, for a file of n watches
LoadConfig(n, headError) ==
    /\ load.pc \in {"idle", "failed", "handed"}
    /\ load' = LoadStart(n, headError)
    /\ Becomes(EmptyMatchinator)
    /\ watch' = NoWatch
    /\ result' = NoResult
    /\ UNCHANGED item
    /\ UNCHANGED nonConfigVars

\* Config.Validate validates the next watch of the file
ValidateWatch(w, checkRepositoryError, emailError) ==
    /\ load.pc = "validating"
    /\ Len(load.watches) < load.n
    /\ load' = ValidateStep(load, w, checkRepositoryError, emailError)
    /\ UNCHANGED matchVars
    /\ UNCHANGED nonConfigVars

\* Config.Validate returns nil, loadConfig returns the config and
\* configinator.Watch calls callback(config)
LoadReturns ==
    /\ load.pc = "validating"
    /\ Len(load.watches) = load.n
    /\ load' = [load EXCEPT !.pc = "handed"]
    /\ UNCHANGED matchVars
    /\ UNCHANGED nonConfigVars

\* getPollCallback for the k-th watch of the config the callback was called
\* with: matchinator := watch.GetMatchinator()
GetPollCallback(k) ==
    /\ load.pc = "handed"
    /\ k \in 1..Len(load.watches)
    /\ Becomes(GetMatchinator(load.watches[k]))
    /\ watch' = AsBuilt(load.watches[k])
    /\ result' = NoResult
    /\ UNCHANGED <<item, load>>
    /\ UNCHANGED nonConfigVars

\* ----------------------------- configinator.Watch with loadConfig spelled out
RECURSIVE ValidateFrom(_, _, _, _)
\* the loop of Config.Validate over the watches of the config c, from the
\* state ld on
ValidateFrom(ld, c, checkRepositoryError, emailError) ==
    IF ld.pc # "validating" \/ Len(ld.watches) = Len(c)
       THEN ld
       ELSE ValidateFrom(ValidateStep(ld, c[Len(ld.watches) + 1], checkRepositoryError,
                                      emailError),
                         c, checkRepositoryError, emailError)

\* loadConfig(ctx, gh, e, path) for a file that holds the config c
LoadConfigOf(c, headError, checkRepositoryError, emailError) ==
    ValidateFrom(LoadStart(Len(c), headError), c, checkRepositoryError, emailError)

LoadedAlways(ld) == TRUE
\* err == nil after loadConfig
Loaded(ld) == ld.pc = "validating"

\* what is kept of a loadConfig call once Watch has acted on it: whether it
\* failed
Outcome(ld) ==
    [NoLoad EXCEPT !.pc = IF ld.pc = "validating" THEN "handed" ELSE "failed",
                   !.total = ld.total]

\* the config files of the program runs: TestWatch under each name, a watch
\* without a name and a watch with a selector on an unknown key
ProgramWatches ==
    {[TestWatch EXCEPT !.Name = n] : n \in Names \cup {""}}
        \cup {[TestWatch EXCEPT !.Selectors = <<<<"unknown", "=", "bug">>>>]}
ProgramConfigs == ListsOf(ProgramWatches, MaxWatches)

\* Watch is called: the initial load; a config that does not load or
\* validate makes Watch return the error, otherwise callback(config) is called
ConfigWatchStart(c, headError) ==
    /\ cfgPc = "init"
    /\ ThreadIdle
    /\ LET ld == LoadConfigOf(c, headError, Nil, Nil)
       IN  /\ load' = Outcome(ld)
           /\ IF Loaded(ld)
                 THEN StartPassWith(ld.watches)
                 ELSE /\ cfgPc' = "returned"
                      /\ UNCHANGED pass
    /\ UNCHANGED <<polls, pstate, nextId, ctxDone, parentDone, op, fsEvents, last, stopAllMark>>
    /\ UNCHANGED <<matchVars, actionVars, tickVars, listVars, countVars, labelVars>>

\* select: case event := <-w.Events. Events that are not writes are skipped;
\* for a write the config is loaded: an error is logged and the loop goes on,
\* otherwise callback(config) is called
ConfigHandleEvent(isWrite, c, headError) ==
    /\ cfgPc = "loop"
    /\ op.kind = "none"
    /\ fsEvents > 0
    /\ fsEvents' = fsEvents - 1
    /\ IF ~isWrite
          THEN UNCHANGED <<cfgPc, pass, load>>
          ELSE LET ld == LoadConfigOf(c, headError, Nil, Nil)
               IN  /\ load' = Outcome(ld)
                   /\ IF Loaded(ld)
                         THEN StartPassWith(ld.watches)
                         ELSE UNCHANGED <<cfgPc, pass>>
    /\ UNCHANGED <<polls, pstate, nextId, ctxDone, parentDone, op, last, stopAllMark>>
    /\ UNCHANGED <<matchVars, actionVars, tickVars, listVars, countVars, labelVars>>

\* --------------------------------------------- a watch that is counted
\* nothing has been counted
NoCount ==
    [init |-> [p \in PollIds |-> FALSE], invoked |-> [p \in PollIds |-> 0],
     received |-> [p \in PollIds |-> 0], pollTickTotal |-> 0]

\* w.pollinator.Add("a", c.Interval, w.getPollCallback(ctx, gh, e, watch), b):
\* getPollCallback runs first and increments MetricPollTickTotal for the
\* watch. The watchinator passes true; the Pollinator takes either value
CountAdd(doInitialCallback) ==
    /\ ThreadIdle
    /\ CallAdd("a", doInitialCallback, "direct")
    /\ count' = [count EXCEPT !.init[nextId] = doInitialCallback,
                              !.pollTickTotal = @ + 1]
    /\ UNCHANGED <<ctxDone, parentDone, cfgPc, pass, fsEvents, stopAllMark>>
    /\ UNCHANGED nonCountVars

\* go runPoll(newPoll) with a callback that is counted
CountStart(p) ==
    /\ RunPollStart(p)
    /\ count' = IF InitialCallback(p)
                   THEN [count EXCEPT !.invoked[p] = @ + 1]
                   ELSE count
    /\ UNCHANGED nonCountVars

\* case t := <-p.ticker.C with a callback that is counted
CountTick(p) ==
    /\ count.received[p] < MaxTicks
    /\ RunPollTick(p)
    /\ count' = [count EXCEPT !.received[p] = @ + 1, !.invoked[p] = @ + 1]
    /\ UNCHANGED nonCountVars

\* ------------------------------------------------------- specification
InitPolls ==
    /\ polls = [n \in Names |-> None]
    /\ pstate = [p \in PollIds |-> FreePoll]
    /\ nextId = 1
    /\ ctxDone = FALSE
    /\ parentDone = FALSE
    /\ op = NoOp
    /\ cfgPc = "init"
    /\ pass = NoPass
    /\ fsEvents = 0
    /\ last = NoLast
    /\ stopAllMark = 0

InitMatchFixed ==
    /\ matchFuncs = <<>>
    /\ hasBodyRegex = FALSE
    /\ hasRequiredLabels = FALSE
    /\ watch = NoWatch
    /\ item = [Number |-> 1]
    /\ result = NoResult

\* NewActioninator() of a watch without actions, and collaborators that
\* do not fail
InitActionFixed ==
    /\ actions = <<>>
    /\ actionLock = Unlocked
    /\ handle = [c \in Callers |-> NoHandle]
    /\ handleCtxDone = FALSE
    /\ setSubscriptionError = Nil
    /\ newMsgError = Nil
    /\ sendError = Nil

\* a watch of one repository whose callback has not run
InitTickFixed ==
    /\ repositories = <<1>>
    /\ callback = NoCallback
    /\ lastTick = NoTick

\* no config has been loaded and nothing has been counted
InitRestFixed ==
    /\ list = NoList
    /\ load = NoLoad
    /\ count = NoCount
    /\ labelq = NoLabelq

Init == InitPolls /\ InitMatchFixed /\ InitActionFixed /\ InitTickFixed /\ InitRestFixed

Next ==
    \/ \E n \in Names, b \in BOOLEAN : Add(n, b)
    \/ AddResume
    \/ \E n \in Names : Delete(n)
    \/ DeleteResume
    \/ StopAll
    \/ StopAllResume
    \/ \E p \in PollIds : PollStart(p)
    \/ \E p \in PollIds : PollCallbackReturn(p)
    \/ \E p \in PollIds : PollCtxDone(p)
    \/ \E p \in PollIds : PollCancelled(p)
    \/ \E p \in PollIds : PollTick(p)
    \/ \E p \in PollIds : TickerFire(p)
    \/ CancelParent
    \/ \E w \in Configs, b \in BOOLEAN : WatchStart(w, b)
    \/ FsEvent
    \/ \E wr \in BOOLEAN, w \in Configs, b \in BOOLEAN : HandleEvent(wr, w, b)
    \/ RecVisit
    \/ RecAdd
    \/ RecReturn
    \/ WatchCtxDone
    \/ WatcherError

Spec == Init /\ [][Next]_vars

\* the pollinator with one watch added, replaced and deleted by its owner,
\* stopped by StopAll or the parent context, and reconciled once with a
\* config that holds that watch
NextLive ==
    \/ \E b \in BOOLEAN : Add("a", b)
    \/ AddResume
    \/ Delete("a")
    \/ DeleteResume
    \/ StopAll
    \/ StopAllResume
    \/ \E p \in PollIds : PollStart(p)
    \/ \E p \in PollIds : PollCallbackReturn(p)
    \/ \E p \in PollIds : PollCtxDone(p)
    \/ \E p \in PollIds : PollCancelled(p)
    \/ \E p \in PollIds : PollTick(p)
    \/ \E p \in PollIds : TickerFire(p)
    \/ CancelParent
    \/ WatchStart(<<"a">>, TRUE)
    \/ RecVisit
    \/ RecAdd
    \/ RecReturn

\* a scheduler that lets every goroutine run: a call that can return does,
\* every callback invocation returns, and a select that is entered again and
\* again with a ready case takes that case in the end
SpecLive ==
    /\ Init
    /\ [][NextLive]_vars
    /\ WF_vars(AddResume)
    /\ WF_vars(DeleteResume)
    /\ WF_vars(StopAllResume)
    /\ WF_vars(RecVisit)
    /\ WF_vars(RecAdd)
    /\ WF_vars(RecReturn)
    /\ \A p \in PollIds :
          /\ WF_vars(PollStart(p))
          /\ WF_vars(PollCallbackReturn(p))
          /\ SF_vars(PollCtxDone(p))
          /\ SF_vars(PollCancelled(p))

\* the matchinator alone: a fresh matchinator and any item
InitMatch ==
    /\ InitPolls
    /\ InitActionFixed
    /\ InitTickFixed
    /\ list = NoList
    /\ load = NoLoad
    /\ count = NoCount
    /\ labelq = NoLabelq
    /\ matchFuncs = <<>>
    /\ hasBodyRegex = FALSE
    /\ hasRequiredLabels = FALSE
    /\ watch = NoWatch
    /\ item \in Items
    /\ result = NoResult

NextMatch ==
    \/ NewMatchinator
    \/ \E m \in GitHubItemMatchers : WithMatchFunc(m)
    \/ \E it \in Items : CallMatches(it)

SpecMatch == InitMatch /\ [][NextMatch]_vars

\* the matchinator of a Watch: built by GetMatchinator or by With* calls in
\* any order, and handed any item
InitWatch ==
    /\ InitPolls
    /\ InitActionFixed
    /\ InitTickFixed
    /\ list = NoList
    /\ load = NoLoad
    /\ count = NoCount
    /\ labelq = NoLabelq
    /\ matchFuncs = <<>>
    /\ hasBodyRegex = FALSE
    /\ hasRequiredLabels = FALSE
    /\ watch = NoWatch
    /\ item \in GitHubItems
    /\ result = NoResult

NextWatch ==
    \/ NewMatchinator
    \/ WithMatchFunc(NeverMatcher)
    \/ \E l \in ListsOf(Selectors, MaxList) : CallWithSelectors(l)
    \/ \E l \in ListsOf(Regexes, MaxList) : CallWithBodyRegexes(l)
    \/ \E l \in ListsOf(Regexes, MaxList) : CallWithTitleRegexes(l)
    \/ \E l \in ListsOf(LabelNames, MaxList) : CallWithRequiredLabels(l)
    \/ \E w \in Watches : CallGetMatchinator(w)
    \/ \E it \in GitHubItems : CallMatches(it)

SpecWatch == InitWatch /\ [][NextWatch]_vars

\* the actioninator of a watch, called by several goroutines, with
\* collaborators that fail or not
InitAction ==
    /\ InitPolls
    /\ InitMatchFixed
    /\ InitTickFixed
    /\ list = NoList
    /\ load = NoLoad
    /\ count = NoCount
    /\ labelq = NoLabelq
    /\ \E s, e \in BOOLEAN : actions = GetActioninator(s, e)
    /\ actionLock = Unlocked
    /\ handle = [c \in Callers |-> NoHandle]
    /\ handleCtxDone = FALSE
    /\ setSubscriptionError \in {Nil, TestError}
    /\ newMsgError \in {Nil, TestError}
    /\ sendError \in {Nil, TestError}

NextAction ==
    \/ \E c \in Callers, sub \in SubscriptionStates : HandleCall(c, sub)
    \/ \E c \in Callers : HandleLock(c)
    \/ \E c \in Callers : HandleGo(c)
    \/ \E c \in Callers, k \in 1..Len(actions) : ActionStart(c, k)
    \/ \E c \in Callers, k \in 1..Len(actions) : ActionEffect(c, k)
    \/ \E c \in Callers : HandleReturn(c)
    \/ CancelHandleCtx

SpecAction == InitAction /\ [][NextAction]_vars

\* one poll with the callback of getPollCallback: the pollinator after
\* Add("a", ...) for a watch of some repositories
InitTick ==
    /\ polls = [n \in Names |-> IF n = "a" THEN 1 ELSE None]
    /\ \E b \in BOOLEAN : pstate = [p \in PollIds |-> IF p = 1 THEN NewPoll("a", b) ELSE FreePoll]
    /\ nextId = 2
    /\ ctxDone = FALSE
    /\ parentDone = FALSE
    /\ op = NoOp
    /\ cfgPc = "init"
    /\ pass = NoPass
    /\ fsEvents = 0
    /\ last = NoLast
    /\ stopAllMark = 0
    /\ InitMatchFixed
    /\ InitActionFixed
    /\ \E n \in 1..MaxRepos : repositories = [k \in 1..n |-> k]
    /\ callback = NoCallback
    /\ lastTick = NoTick
    /\ list = NoList
    /\ load = NoLoad
    /\ count = NoCount
    /\ labelq = NoLabelq

\* the select of runPoll takes one of its cases
TickSelect == \E p \in PollIds : TickTick(p) \/ PollCancelled(p) \/ PollCtxDone(p)

NextTick ==
    \/ \E p \in PollIds : TickStart(p)
    \/ TickSelect
    \/ \E p \in PollIds : TickerFire(p)
    \/ \E p \in PollIds, ok \in BOOLEAN, n \in 0..MaxIssues : CallbackListIssues(p, ok, n)
    \/ \E p \in PollIds, ok \in BOOLEAN : CallbackHandle(p, ok)
    \/ \E p \in PollIds : CallbackReturn(p)
    \/ Delete("a")
    \/ DeleteResume
    \/ CancelParent

\* the ticker keeps firing and a goroutine at a select with a ready case
\* takes one
SpecTick ==
    /\ InitTick
    /\ [][NextTick]_vars
    /\ WF_vars(\E p \in PollIds : TickerFire(p))
    /\ WF_vars(TickSelect)

\* the watches whose matchinators ListIssues is called with
ListWatches ==
    [built : {TRUE},
     selectors : AtMostOne(Selectors),
     bodyRegex : AtMostOne(Regexes),
     titleRegex : AtMostOne(Regexes),
     RequiredLabels : AtMostOne(LabelNames)]

\* ListIssues with the matchinator of a watch, as getPollCallback calls it
InitList ==
    /\ InitPolls
    /\ InitActionFixed
    /\ InitTickFixed
    /\ \E w \in ListWatches :
           /\ watch = w
           /\ matchFuncs = GetMatchinator(w).matchFuncs
           /\ hasBodyRegex = GetMatchinator(w).hasBodyRegex
           /\ hasRequiredLabels = GetMatchinator(w).hasRequiredLabels
    /\ item = [Number |-> 1]
    /\ result = NoResult
    /\ list = NoList
    /\ load = NoLoad
    /\ count = NoCount
    /\ labelq = NoLabelq

NextList ==
    \/ \E n \in 0..MaxIssues : ListIssuesCall(n)
    \/ \E ok \in BOOLEAN : ListQuery(ok)
    \/ \E id \in 1..MaxIssues, t \in Texts : ListItem(id, t)
    \/ \E ok \in BOOLEAN, l \in SUBSET LabelNames : ListLabels(ok, l)
    \/ \E ok \in BOOLEAN, b \in Texts : ListBody(ok, b)
    \/ ListMatch
    \/ \E ok \in BOOLEAN, b \in Texts : ListFill(ok, b)
    \/ ListPageEnd
    \/ CancelParent

SpecList == InitList /\ [][NextList]_vars

\* listIssueLabels, called for the issues of a repository
InitLabels == Init

NextLabels ==
    \/ \E i \in 1..MaxIssues, l \in IssueLabels : LabelsCall(i, l)
    \/ \E ok \in BOOLEAN : LabelsQuery(ok)
    \/ LabelsAdvance
    \/ CancelParent

SpecLabels == InitLabels /\ [][NextLabels]_vars

\* the loading of config files of any watches, and the poll callbacks made
\* from the config handed to the callback
InitValidate == Init

NextValidate ==
    \/ \E n \in 0..MaxWatches, e \in {Nil, TestError} : LoadConfig(n, e)
    \/ \E w \in RawWatches, c, e \in {Nil, TestError} : ValidateWatch(w, c, e)
    \/ LoadReturns
    \/ \E k \in 1..MaxWatches : GetPollCallback(k)

SpecValidate == InitValidate /\ [][NextValidate]_vars

\* the program: watchinator.Watch, whose pollinator only the config
\* callback calls
\* loadConfig on files whose watches configure some of the filter types
InitFilter == Init

NextFilter ==
    \/ \E n \in 0..MaxWatches, e \in {Nil, TestError} : LoadConfig(n, e)
    \/ \E w \in FilterWatches, c, e \in {Nil, TestError} : ValidateWatch(w, c, e)
    \/ LoadReturns
    \/ \E k \in 1..MaxWatches : GetPollCallback(k)

SpecFilter == InitFilter /\ [][NextFilter]_vars

InitConfig == Init

NextConfig ==
    \/ \E c \in ProgramConfigs, e \in {Nil, TestError} : ConfigWatchStart(c, e)
    \/ FsEvent
    \/ \E wr \in BOOLEAN, c \in ProgramConfigs, e \in {Nil, TestError} :
          ConfigHandleEvent(wr, c, e)
    \/ RecVisit
    \/ RecAdd
    \/ RecReturn
    \/ AddResume
    \/ DeleteResume
    \/ \E p \in PollIds : PollStart(p)
    \/ \E p \in PollIds : PollCallbackReturn(p)
    \/ \E p \in PollIds : PollCtxDone(p)
    \/ \E p \in PollIds : PollCancelled(p)
    \/ \E p \in PollIds : PollTick(p)
    \/ \E p \in PollIds : TickerFire(p)
    \/ CancelParent
    \/ WatchCtxDone
    \/ WatcherError

SpecConfig == InitConfig /\ [][NextConfig]_vars

\* the polls of one watch, added and replaced, with counted callbacks
InitCount == Init

NextCount ==
    \/ \E b \in BOOLEAN : CountAdd(b)
    \/ AddResume
    \/ Delete("a")
    \/ DeleteResume
    \/ \E p \in PollIds : CountStart(p)
    \/ \E p \in PollIds : CountTick(p)
    \/ \E p \in PollIds : PollCallbackReturn(p)
    \/ \E p \in PollIds : PollCtxDone(p)
    \/ \E p \in PollIds : PollCancelled(p)
    \/ \E p \in PollIds : TickerFire(p)
    \/ CancelParent

SpecCount == InitCount /\ [][NextCount]_vars

\* the polls of two watches, stopped one by one, all at once or by the
\* parent context
InitStop ==
    /\ polls = [n \in Names |-> IF n = "a" THEN 1 ELSE 2]
    /\ \E a, b \in BOOLEAN :
          pstate = [p \in PollIds |-> IF p = 1 THEN NewPoll("a", a)
                                      ELSE IF p = 2 THEN NewPoll("b", b) ELSE FreePoll]
    /\ nextId = 3
    /\ ctxDone = FALSE
    /\ parentDone = FALSE
    /\ op = NoOp
    /\ cfgPc = "init"
    /\ pass = NoPass
    /\ fsEvents = 0
    /\ last = NoLast
    /\ stopAllMark = 0
    /\ InitMatchFixed
    /\ InitActionFixed
    /\ InitTickFixed
    /\ InitRestFixed

NextStop ==
    \/ \E n \in Names : Delete(n)
    \/ DeleteResume
    \/ StopAll
    \/ StopAllResume
    \/ \E p \in PollIds : PollStart(p)
    \/ \E p \in PollIds : PollCallbackReturn(p)
    \/ \E p \in PollIds : PollCtxDone(p)
    \/ \E p \in PollIds : PollCancelled(p)
    \/ \E p \in PollIds : PollTick(p)
    \/ \E p \in PollIds : TickerFire(p)
    \/ CancelParent

\* every goroutine runs on, every callback invocation returns, and a select
\* that is entered again and again with a ready case takes that case in the
\* end (the select picks among its ready cases at random)
SpecStop ==
    /\ InitStop
    /\ [][NextStop]_vars
    /\ \A p \in PollIds :
          /\ WF_vars(PollStart(p))
          /\ WF_vars(PollCallbackReturn(p))
          /\ SF_vars(PollCtxDone(p))
          /\ SF_vars(PollCancelled(p))

\* ============================================================== claims
\* the goroutine of poll p exists and has not closed doneChan
Live(p) == pstate[p].pc \notin {"free", "exited"}
\* poll p is the value of a map entry
InMap(p) == \E n \in Names : polls[n] = p
\* this step is an invocation of the callback of poll p
Invokes(p) == pstate[p].pc # "callback" /\ pstate'[p].pc = "callback"
\* this step creates poll p and starts its goroutine
Starts(p) == pstate[p].pc = "free" /\ pstate'[p].pc = "start"
\* the watch names of the config of the running pass
PassNames == {pass.watches[i].Name : i \in 1..Len(pass.watches)}

\* C1: when the config callback has returned for a config with watch names W,
\* List() is exactly W, whatever polls existed before the pass; it stays so
\* until the next call that returns.
C1_ListAfterReconcile == last.kind = "reconcile" => List = last.names
\* a pass has returned that removed the poll of a watch the config no longer
\* has, after an earlier StopAll
C1_Witness ==
    /\ last.kind = "reconcile"
    /\ last.names = {"b"}
    /\ List = {"b"}
    /\ stopAllMark > 1
    /\ \E p \in PollIds : pstate[p] = Collected

\* C2: for each name at most one poll goroutine has not yet closed its
\* doneChan, in every reachable state.
C2_AtMostOneLivePerName ==
    \A n \in Names : Cardinality({p \in PollIds : Live(p) /\ pstate[p].name = n}) <= 1
\* a pass for a config that lists the same name twice has made both Add
\* calls, and the poll of that name is running
C2_Witness ==
    /\ pass.pc = "adding"
    /\ Len(pass.watches) = 2
    /\ pass.watches[1].Name = pass.watches[2].Name
    /\ pass.i = 3
    /\ op.kind = "none"
    /\ last.kind = "replace"
    /\ Live(polls[pass.watches[1].Name])

\* C3: a poll that is live is the one stored under its name; the goroutine
\* of a new poll is started only when every other poll of that name has
\* closed its doneChan; and every callback invocation is made by the poll
\* that the map holds for the name (the newest registration).
C3_Registered == \A p \in PollIds : Live(p) => polls[pstate[p].name] = p
C3_Steps ==
    \A p \in PollIds :
       /\ Starts(p) => \A q \in PollIds \ {p} : Live(q) => pstate[q].name # pstate'[p].name
       /\ Invokes(p) => polls[pstate[p].name] = p /\ polls'[pstate[p].name] = p
C3_ReplaceStopsOldFirst == [](C3_Registered) /\ [][C3_Steps]_vars
\* Add on an existing name has returned and the callback of the new poll is
\* being invoked
C3_Witness ==
    /\ last.kind = "replace"
    /\ \E n \in last.names : polls[n] # None /\ pstate[polls[n]].pc = "callback"
    /\ pass.pc = "none"

\* C4: when Delete(name) has returned for an existing poll, name is not in
\* List() and the poll is not live; a poll that no map entry holds never
\* invokes its callback.
C4_Deleted ==
    /\ last.kind = "delete" => last.names \cap List = {}
    /\ \A p \in PollIds : pstate[p].pc # "free" /\ ~InMap(p) => ~Live(p)
C4_NoCallAfterDelete ==
    [](C4_Deleted) /\ [][\A p \in PollIds : ~InMap(p) => ~Invokes(p)]_vars
\* Delete is waiting for a poll that has closed doneChan and left a tick
\* unread in its ticker channel
C4_Witness ==
    /\ op.kind = "delete"
    /\ op.by = "direct"
    /\ pstate[polls[op.name]].doneClosed
    /\ pstate[polls[op.name]].tick
    /\ pstate[polls[op.name]].called

\* C5: when StopAll has returned, the shared context is cancelled and every
\* poll of the map has closed its doneChan: none of them is in its callback,
\* and none of them invokes it later.
C5_Stopped ==
    /\ last.kind = "stopall" => ctxDone
    /\ last.kind = "stopall" => \A n \in List : ~Live(polls[n]) /\ pstate[polls[n]].doneClosed
C5_StopAllWaits ==
    [](C5_Stopped) /\ [][last.kind = "stopall" => \A n \in List : ~Invokes(polls[n])]_vars
\* StopAll has returned for a map of two polls, one of which had run its
\* callback and had a tick waiting
C5_Witness ==
    /\ last.kind = "stopall"
    /\ last.names = Names
    /\ \E n \in Names : pstate[polls[n]].called /\ pstate[polls[n]].tick

\* C6: once StopAll has returned, every poll registered before that return
\* stays stopped and never invokes its callback again; a further StopAll
\* finds every doneChan of those polls closed (so it returns without
\* waiting), and neither its call nor its return changes the context, the
\* map or any poll.
C6_Terminal ==
    /\ \A p \in PollIds : p < stopAllMark => ~Live(p)
    /\ (op.kind = "stopall" /\ \A n \in List : polls[n] < stopAllMark) => AllAcked
C6_SecondCall ==
    /\ (stopAllMark > 0 /\ op.kind = "none" /\ op'.kind = "stopall")
          => ctxDone' = ctxDone /\ polls' = polls /\ pstate' = pstate
    /\ (stopAllMark > 0 /\ op.kind = "stopall" /\ op'.kind = "none")
          => ctxDone' = ctxDone /\ polls' = polls /\ pstate' = pstate
    /\ \A p \in PollIds : p < stopAllMark => ~Invokes(p)
C6_StopAllIdempotentTerminal == [](C6_Terminal) /\ [][C6_SecondCall]_vars
\* a second StopAll is inside its wait loop, over polls that the first
\* StopAll stopped while a tick was waiting
C6_Witness ==
    /\ op.kind = "stopall"
    /\ stopAllMark > 1
    /\ List # {}
    /\ \A n \in List : polls[n] < stopAllMark
    /\ \E n \in List : pstate[polls[n]].tick

\* C7: once a pass has started a poll, no poll whose name is absent from the
\* config is live or in the map: every Delete of the pass has returned
\* before its first Add.
C7_Ordered ==
    (pass.pc # "none" /\ nextId > pass.first) =>
        /\ pass.listed = {}
        /\ \A n \in List : n \in PassNames
        /\ \A p \in PollIds : Live(p) => pstate[p].name \in PassNames
C7_DeletesBeforeAdds ==
    [](C7_Ordered) /\
    [][\A p \in PollIds :
          (Starts(p) /\ pass.pc # "none") =>
              \A q \in PollIds : Live(q) => pstate[q].name \in PassNames]_vars
\* a pass that deleted the poll of a renamed-away watch has started the poll
\* of the new name
C7_Witness ==
    /\ pass.pc = "adding"
    /\ pass.deleted # {}
    /\ nextId > pass.first
    /\ \E n \in PassNames : polls[n] # None /\ polls[n] >= pass.first /\ Live(polls[n])

\* C8: when a pass returns, every watch of the config has a poll that was
\* created in this pass with callbackOnStart set (also a watch that had a
\* poll before); and a poll with callbackOnStart invokes its callback as the
\* first thing it does, without a tick.
C8_InitialFirst ==
    \A p \in PollIds : pstate[p].callbackOnStart /\ pstate[p].pc # "start" => pstate[p].called
C8_Steps ==
    /\ (pass.pc # "none" /\ pass'.pc = "none") =>
          \A n \in PassNames :
             /\ polls'[n] >= pass.first
             /\ pstate'[polls'[n]].callbackOnStart
    /\ \A p \in PollIds : (Starts(p) /\ pass.pc # "none") => pstate'[p].callbackOnStart
    /\ \A p \in PollIds :
          (pstate[p].pc = "start" /\ pstate[p].callbackOnStart /\ pstate'[p].pc # "start")
              => Invokes(p) /\ pstate'[p].tick = pstate[p].tick
C8_ReAddWithInitialCallback == [](C8_InitialFirst) /\ [][C8_Steps]_vars
\* a pass has replaced the existing poll of a watch, and the new poll is in
\* its initial callback although no tick has come
C8_Witness ==
    /\ pass.pc = "adding"
    /\ last.kind = "replace"
    /\ \E n \in last.names :
          /\ polls[n] >= pass.first
          /\ pstate[polls[n]].pc = "callback"
          /\ ~pstate[polls[n]].tick

\* C9: configinator.Watch is at its select (or has not started, or has
\* returned) only when no config callback is running, and it takes an event
\* from the watcher only then: passes never overlap.
C9_Serial == cfgPc # "callback" => pass.pc = "none"
C9_PassesNeverOverlap ==
    [](C9_Serial) /\ [][fsEvents' < fsEvents => pass.pc = "none" /\ op.kind = "none"]_vars
\* an event is queued while the pass waits in stopPoll for a poll that is
\* still in its callback
C9_Witness ==
    /\ cfgPc = "callback"
    /\ pass.pc # "none"
    /\ op.kind \in {"add", "delete"}
    /\ op.by = "pass"
    /\ pstate[polls[op.name]].pc = "callback"
    /\ fsEvents > 0

\* C10: Matches returns (true, "") exactly when every registered matcher
\* accepts the item (so always for an empty list); otherwise it returns
\* false and a non-empty reason that names the first rejecting matcher in
\* insertion order, and no matcher after that one has been called.
Rejecting == {k \in 1..Len(matchFuncs) : ~matchFuncs[k].Matcher[item]}
FirstRejecting == CHOOSE k \in Rejecting : \A j \in Rejecting : k <= j
C10_MatchesShortCircuit ==
    result.called =>
        /\ result.ok <=> Rejecting = {}
        /\ matchFuncs = <<>> => result.ok
        /\ result.ok => result.reason = <<>> /\ result.evaluated = 1..Len(matchFuncs)
        /\ ~result.ok =>
              /\ result.reason # <<>>
              /\ result.reason = DidNotMatch(matchFuncs[FirstRejecting].Name)
              /\ result.evaluated = 1..FirstRejecting
\* Matches has returned false for three matchers of which the second and
\* the third, which has another name, reject the item
C10_Witness ==
    /\ result.called
    /\ ~result.ok
    /\ Len(matchFuncs) = 3
    /\ Rejecting = {2, 3}
    /\ matchFuncs[2].Name # matchFuncs[3].Name

\* the kind of a matcher made from a Watch: the prefix of its name
KindOf(m) == m.Name[1]
\* the kinds of the matchers that reject the item of the last Matches call
FailingKinds == {KindOf(matchFuncs[k]) : k \in Rejecting}
\* the kind the reason of the last Matches call names
ReasonKind == result.reason[2][1]
\* the position of a kind in an order of the four kinds
PosIn(order, kind) == CHOOSE i \in 1..Len(order) : order[i] = kind
\* the matchers are registered in the given order of kinds
RegisteredIn(order) ==
    \A j, k \in 1..Len(matchFuncs) :
        j < k => PosIn(order, KindOf(matchFuncs[j])) <= PosIn(order, KindOf(matchFuncs[k]))
\* the reason names the failing kind that comes first in the given order
ReasonIsEarliestIn(order) ==
    \A kind \in FailingKinds : PosIn(order, ReasonKind) <= PosIn(order, kind)
SelectorsFirst == <<KindSelector, KindBodyRegex, KindTitleRegex, KindRequiredLabel>>
BodyFirst == <<KindBodyRegex, KindTitleRegex, KindSelector, KindRequiredLabel>>

\* C11 as stated: the matchers of a matchinator built by GetMatchinator are
\* registered in the order selectors, body regexes, title regexes, required
\* labels, and the reason of a failed Matches names the earliest failing
\* kind in that order.
C11_SelectorsFirst ==
    watch.built =>
        /\ RegisteredIn(SelectorsFirst)
        /\ (result.called /\ ~result.ok) => ReasonIsEarliestIn(SelectorsFirst)
\* C11, amended: the matchers of a matchinator built by GetMatchinator are
\* registered in the order body regexes, title regexes, selectors, required
\* labels, and the reason of a failed Matches names the earliest failing
\* kind in that order.
C11_BodyFirst ==
    watch.built =>
        /\ RegisteredIn(BodyFirst)
        /\ (result.called /\ ~result.ok) => ReasonIsEarliestIn(BodyFirst)
\* Matches has returned false for an item that fails a selector and a body
\* regex of the watch, and the reason names the body regex
C11_Witness ==
    /\ watch.built
    /\ result.called /\ ~result.ok
    /\ {KindSelector, KindBodyRegex} \subseteq FailingKinds
    /\ ReasonKind = KindBodyRegex

\* C12: HasBodyRegex() is true exactly when a body-regex matcher is
\* registered and HasRequiredLabels() exactly when a required-label matcher
\* is, whatever With* calls built the matchinator: selectors, title regexes
\* and matchers given to WithMatchFunc set neither flag.
C12_FlagsReflectKinds ==
    /\ hasBodyRegex <=> \E k \in 1..Len(matchFuncs) : KindOf(matchFuncs[k]) = KindBodyRegex
    /\ hasRequiredLabels <=>
           \E k \in 1..Len(matchFuncs) : KindOf(matchFuncs[k]) = KindRequiredLabel
\* one body regex has been added to a matchinator of one selector:
\* HasBodyRegex() is true and HasRequiredLabels() false
C12_Witness ==
    /\ Len(matchFuncs) = 2
    /\ KindOf(matchFuncs[1]) = KindSelector
    /\ KindOf(matchFuncs[2]) = KindBodyRegex
    /\ hasBodyRegex /\ ~hasRequiredLabels

\* the message of err has name as one of its parts
NamesAction(err, name) == \E i \in 1..Len(err) : err[i] = name
\* the collaborators of the action of the given name answer with an error
Failing(name) ==
    IF name = "subscribe" THEN setSubscriptionError # Nil
                          ELSE newMsgError # Nil \/ sendError # Nil
\* the Handle call of caller c has returned, for an item the user is not
\* subscribed to and under a context that was never cancelled
ReturnedUnsubscribed(c) ==
    /\ handle[c].pc = "returned"
    /\ handle[c].item.Subscription # "SUBSCRIBED"
    /\ ~handleCtxDone

\* C13 as stated: while an action of a Handle call has not returned, the
\* context handed to it is cancelled only if the context of the caller is:
\* never because a sibling action returned an error.
C13_NoSharedCancellation ==
    \A c \in Callers :
        (InHandle(c) /\ handle[c].started = Len(actions) /\ Running(c) # {})
            => (handle[c].gctxDone => handleCtxDone)

\* C14 as stated: when Handle has returned for two actions of which one
\* fails and one succeeds, the error is not nil, names the failing action
\* and not the other, and the succeeding action has run to its end without
\* an error; and Handle returns nil exactly when no action returned an error.
C14_ErrorNamesFailingAction ==
    \A c \in Callers :
        ReturnedUnsubscribed(c) =>
            /\ handle[c].ret = Nil <=> \A k \in 1..Len(actions) : handle[c].go[k].err = Nil
            /\ \A k, j \in 1..Len(actions) :
                   (Failing(actions[k]) /\ ~Failing(actions[j])) =>
                       /\ handle[c].ret # Nil
                       /\ NamesAction(handle[c].ret, actions[k])
                       /\ ~NamesAction(handle[c].ret, actions[j])
                       /\ handle[c].go[j].pc = "done" /\ handle[c].go[j].err = Nil

\* C15: at most one caller is between Lock and Unlock of the actionLock,
\* the lock is held by exactly that caller and is free when no caller is
\* (so every return of Handle, with or without an error, has released it).
C15_MutualExclusion ==
    /\ Cardinality({c \in Callers : InHandle(c)}) <= 1
    /\ \A c \in Callers : InHandle(c) <=> actionLock = c
    /\ \A c \in Callers : handle[c].pc = "returned" => actionLock # c
\* a caller holds the lock after the Handle call of another caller returned
\* an error, and its two actions are in their effect at once
C15_Witness ==
    \E c, d \in Callers :
        /\ handle[c].pc = "returned" /\ handle[c].ret # Nil
        /\ InHandle(d)
        /\ Len(actions) = 2
        /\ \A k \in 1..2 : handle[d].go[k].pc = "call"

\* C16: an action that has returned for an item with subscription state
\* SUBSCRIBED returned nil and made no SetSubscription or Send call, whatever
\* those calls would answer; the subscribe action that has returned for any
\* other item made exactly one SetSubscription call and returned the error
\* of that call as it is.
C16_SkipIsSuccess ==
    \A c \in Callers : \A k \in 1..Len(handle[c].go) :
        handle[c].go[k].pc = "done" =>
            IF handle[c].item.Subscription = "SUBSCRIBED"
               THEN handle[c].go[k].err = Nil /\ handle[c].go[k].calls = 0
               ELSE actions[k] = "subscribe" =>
                        /\ handle[c].go[k].calls = 1
                        /\ handle[c].go[k].err = handle[c].go[k].callErr
\* both actions have returned nil for a subscribed item although
\* SetSubscription and Send would fail
C16_Witness ==
    \E c \in Callers :
        /\ handle[c].pc = "returned"
        /\ handle[c].item.Subscription = "SUBSCRIBED"
        /\ actions = <<"subscribe", "email">>
        /\ setSubscriptionError # Nil /\ sendError # Nil
        /\ handle[c].ret = Nil

\* every issue that ListIssues returned for a repository the loop has left
\* behind has been handed to Handle
HandledBefore(r) ==
    \A pair \in callback.listed : pair[1] < r => pair \in callback.handled

\* C17: in a running invocation of the poll callback, ListIssues has been
\* called for every repository before the current one, also after a call
\* that failed, and every issue those calls returned has been handed to
\* Handle; so when the loop ends every repository has been fetched.
C17_TickGoesOn ==
    callback.pc # "idle" =>
        /\ \A q \in 1..Len(repositories) : q < callback.r => q \in callback.fetched
        /\ HandledBefore(callback.r)
\* the loop has ended: ListIssues failed for the first repository, and an
\* issue of the second has been handed to Handle
C17_Witness ==
    /\ callback.pc = "repo"
    /\ callback.r > Len(repositories)
    /\ 1 \in callback.failed
    /\ \E k \in 1..MaxIssues : <<2, k>> \in callback.handled

\* C18: an error of ListIssues or Handle does not end the poll. The issues
\* of a repository the loop has left behind have all been handed to Handle,
\* and so have the earlier issues of the current one; the goroutine of the
\* poll has returned only when its context or its cancelChan is closed; a
\* callback that ends returns to the select; and after a callback that met
\* an error the poll, waiting at the select, invokes the callback again or
\* is cancelled.
C18_Dispatched ==
    /\ callback.pc # "idle" => HandledBefore(callback.r)
    /\ callback.pc = "issues" =>
           \A k \in 1..callback.n : k < callback.i => <<callback.r, k>> \in callback.handled
    /\ \A p \in PollIds :
           pstate[p].pc = "exited" => (ctxDone \/ pstate[p].cancelClosed)
C18_Steps ==
    \A p \in PollIds :
        (pstate[p].pc = "callback" /\ pstate'[p].pc # "callback") => pstate'[p].pc = "select"
C18_TicksAgain ==
    \A p \in PollIds :
        (lastTick.errored /\ pstate[p].pc = "select")
            ~> (pstate[p].pc \in {"callback", "exited"})
C18_ErrorsNeverStopPoll == [](C18_Dispatched) /\ [][C18_Steps]_vars /\ C18_TicksAgain
\* the callback runs again after an invocation that met an error, and in
\* this invocation a second issue has been handed to Handle after Handle
\* returned an error for the first
C18_Witness ==
    /\ lastTick.errored
    /\ pstate[1].pc = "callback"
    /\ callback.failed = {}
    /\ callback.errors > 0
    /\ Cardinality(callback.handled) >= 2

\* the ids of the items for which Matches returned true in this call
Accepted == {e.id : e \in {x \in list.evals : x.ok}}
\* the ids of the items in a list of items
IdsOf(issues) == {issues[k].id : k \in 1..Len(issues)}

\* C19: every item ListIssues has put in allIssues is one for which Matches
\* returned true; a call that returned without error returns each accepted
\* item once and nothing else, after Matches was called on every issue of
\* every page; a call that returned an error returns no items.
C19_ReturnsAccepted ==
    /\ IdsOf(list.allIssues) \subseteq Accepted
    /\ list.pc = "returned" =>
           IF list.ret.err
              THEN list.ret.issues = <<>>
              ELSE /\ IdsOf(list.ret.issues) = Accepted
                   /\ Len(list.ret.issues) = Cardinality(Accepted)
                   /\ {e.id : e \in list.evals} = 1..list.total
\* a call over two pages has returned one of two issues: Matches accepted
\* one and rejected the other
C19_Witness ==
    /\ list.pc = "returned" /\ ~list.ret.err
    /\ list.total = 2
    /\ Len(list.ret.issues) = 1
    /\ \E e \in list.evals : ~e.ok

\* C20: for every Matches call of ListIssues, the labels of the item had
\* been fetched if the matcher has a required-label matcher and the body if
\* it has a body-regex matcher; and the labels had not been fetched if
\* HasRequiredLabels() is false, nor the body if HasBodyRegex() is false.
C20_SubFetchesFollowFlags ==
    \A e \in list.evals :
        /\ (\E k \in 1..Len(matchFuncs) : KindOf(matchFuncs[k]) = KindRequiredLabel) => e.labels
        /\ (\E k \in 1..Len(matchFuncs) : KindOf(matchFuncs[k]) = KindBodyRegex) => e.body
        /\ ~hasRequiredLabels => ~e.labels
        /\ ~hasBodyRegex => ~e.body
\* Matches has accepted an item whose labels had been fetched and whose body
\* had not
C20_Witness ==
    \E e \in list.evals : e.labels /\ ~e.body /\ e.ok /\ e.item.Labels # {} /\ e.item.Body = ""

\* the strings of the watch w parse and compile, and its selectors are on
\* fields of a GitHubItem
ValidFilters(w) ==
    /\ \A k \in 1..Len(w.Selectors) :
          /\ LabelsParse(w.Selectors[k]).err = Nil
          /\ LabelsParse(w.Selectors[k]).selector.key \in GitHubItemFields
    /\ \A k \in 1..Len(w.BodyRegex) : RegexpCompile(w.BodyRegex[k]).err = Nil
    /\ \A k \in 1..Len(w.TitleRegex) : RegexpCompile(w.TitleRegex[k]).err = Nil

\* C21: every watch that ValidateAndPopulate has accepted has only selectors
\* on the fixed GitHubItem keys and only regexes that compile, so a watch
\* with another key or pattern was rejected; a config that reaches the
\* callback holds accepted watches only, and every matcher a poll callback
\* is built with has a valid key or a compiled pattern.
C21_InvalidNeverPolled ==
    /\ \A k \in 1..Len(load.watches) : ValidFilters(load.watches[k])
    /\ load.pc = "handed" => Len(load.watches) = load.n /\ load.n > 0
    /\ \A j \in 1..Len(matchFuncs) :
          /\ KindOf(matchFuncs[j]) = KindSelector
                => matchFuncs[j].Name[2].key \in GitHubItemFields
          /\ KindOf(matchFuncs[j]) \in {KindBodyRegex, KindTitleRegex}
                => matchFuncs[j].Name[2] \in Regexes
\* the load of a config that has a watch with a selector on an unknown key
\* has failed with the error of that watch
C21_Witness ==
    /\ load.pc = "failed"
    /\ load.rejected # <<>>
    /\ load.rejected[1].Selectors = <<<<"unknown", "=", "bug">>>>
    /\ load.err = <<"unable to validate watch: ", "unknown key '", "unknown", "' in selector">>

\* the watch w is validated and populated
Populated(w) ==
    /\ w.Name # ""
    /\ Len(w.Repositories) > 0
    /\ ValidFilters(w)
    /\ w.selectors = [k \in 1..Len(w.Selectors) |-> LabelsParse(w.Selectors[k]).selector]
    /\ w.bodyRegex = [k \in 1..Len(w.BodyRegex) |-> RegexpCompile(w.BodyRegex[k]).re]
    /\ w.titleRegex = [k \in 1..Len(w.TitleRegex) |-> RegexpCompile(w.TitleRegex[k]).re]
    /\ \A k \in 1..Len(w.States) : w.States[k] \in IssueStates
\* this step is a loadConfig call that returns an error
LoadFails == load'.total # load.total /\ load'.pc = "failed"

\* C22: the config of a running config callback is a validated and populated
\* one, and the callback is entered only by a load that succeeded; a load
\* that fails on an event leaves the callback uncalled, the polls and the
\* map as they were and Watch at its select; a failing initial load makes
\* Watch return, and after Watch has returned the callback is never called.
C22_Validated ==
    /\ pass.pc # "none" =>
          /\ Len(pass.watches) > 0
          /\ \A k \in 1..Len(pass.watches) : Populated(pass.watches[k])
    /\ cfgPc = "returned" => pass.pc = "none"
C22_Steps ==
    /\ LoadFails =>
          /\ pass.pc = "none" /\ pass' = pass
          /\ polls' = polls /\ pstate' = pstate /\ nextId' = nextId
          /\ cfgPc' = IF cfgPc = "init" THEN "returned" ELSE "loop"
    /\ (pass.pc = "none" /\ pass'.pc # "none") =>
          load'.total # load.total /\ load'.pc = "handed"
    /\ cfgPc = "returned" => cfgPc' = "returned" /\ pass' = pass
C23_Terminated ==
    \A p \in PollIds : pstate[p].doneClosed => ~Invokes(p) /\ pstate'[p].doneClosed
C23_PollTerminates ==
    /\ [][C23_Terminated]_vars
    /\ \A p \in PollIds :
          (Live(p) /\ (pstate[p].cancelClosed \/ ctxDone)) ~> pstate[p].doneClosed
    /\ parentDone ~> (\A p \in PollIds : ~Live(p))
\* the parent context is cancelled and both polls have returned, one of them
\* after a callback invocation and with a tick left in its ticker
C23_Witness ==
    /\ parentDone
    /\ op.kind = "none" /\ last.kind = "none"
    /\ \A n \in Names : pstate[polls[n]].pc = "exited" /\ pstate[polls[n]].doneClosed
    /\ \E n \in Names : pstate[polls[n]].called /\ pstate[polls[n]].tick

\* C24: a poll that has not started has invoked nothing; afterwards the
\* invocations of a poll added with doInitialCallback are one more than the
\* ticks it has received (the one at start comes before any tick), and those
\* of a poll added without are exactly the ticks it has received.
C24_InitialThenPerTick ==
    \A p \in PollIds :
       /\ pstate[p].pc \in {"free", "start"} =>
              count.invoked[p] = 0 /\ count.received[p] = 0
       /\ pstate[p].pc \notin {"free", "start"} =>
              count.invoked[p] = (IF count.init[p] THEN 1 ELSE 0) + count.received[p]
\* a poll added with the initial callback has invoked its callback twice
\* after one tick, and the poll that replaced it, added without, waits at
\* its select with a tick it has not received and has invoked nothing
C24_Witness ==
    \E p, q \in PollIds :
       /\ p < q
       /\ count.init[p] /\ count.invoked[p] = 2 /\ count.received[p] = 1
       /\ ~count.init[q] /\ pstate[q].pc = "select" /\ pstate[q].tick
       /\ count.invoked[q] = 0

RECURSIVE InvokedUpTo(_)
\* the callback invocations of the polls 1..p
InvokedUpTo(p) == IF p = 0 THEN 0 ELSE count.invoked[p] + InvokedUpTo(p - 1)

\* C25: watchinator_poll_tick_total of the watch has grown by the number of
\* invocations of the poll callbacks of the watch.
C25_TickTotalCountsInvocations == count.pollTickTotal = InvokedUpTo(MaxPolls)

\* C26: when no pollinator call is in progress, List() holds a name exactly
\* when a poll of that name is running.
C26_ListIsRunning ==
    op.kind = "none" =>
        \A n \in Names : n \in List <=> \E p \in PollIds : Live(p) /\ pstate[p].name = n

\* C27: a Delete of a name without a poll never enters stopPoll, and the
\* step in which it returns changes neither the map nor any poll nor the
\* shared context.
C27_Steps ==
    /\ \A n \in Names :
          (op.kind = "none" /\ polls[n] = None) => ~(op'.kind = "delete" /\ op'.name = n)
    /\ (last' # last /\ last'.kind = "delete_missing") =>
          /\ polls' = polls /\ pstate' = pstate /\ nextId' = nextId
          /\ op' = op /\ ctxDone' = ctxDone
C27_DeleteMissingIsNoOp == [][C27_Steps]_vars
\* Delete("b") has returned for a pollinator that has no poll "b", while
\* the poll "a" is in its callback and has not been told to stop
C27_Witness ==
    /\ last = Returned("delete_missing", {"b"})
    /\ polls["b"] = None
    /\ polls["a"] # None
    /\ pstate[polls["a"]].pc = "callback"
    /\ ~pstate[polls["a"]].cancelClosed
    /\ ~ctxDone

\* this step is part of an Add or Delete call on the name m
CallOn(m) ==
    \/ op' # op /\ (op.name = m \/ op'.name = m)
    \/ /\ last' # last
       /\ last'.kind \in {"add", "replace", "delete", "delete_missing"}
       /\ m \in last'.names

\* C28: a step of an Add or Delete call on one name leaves the map entry
\* and the poll of every other name as they were; and while one poll is in
\* its callback, another poll that waits at its select with a tick can
\* invoke its callback, and one that has just been started can start.
C28_Frame ==
    \A m, n \in Names :
       (m # n /\ CallOn(m)) =>
           /\ polls'[n] = polls[n]
           /\ polls[n] # None => pstate'[polls[n]] = pstate[polls[n]]
C28_NotBlocked ==
    \A p, q \in PollIds :
       (p # q /\ pstate[p].pc = "callback") =>
           /\ (pstate[q].pc = "select" /\ pstate[q].tick) => ENABLED PollTick(q)
           /\ pstate[q].pc = "start" => ENABLED PollStart(q)
C28_PollsAreIndependent == [](C28_NotBlocked) /\ [][C28_Frame]_vars
\* Delete("a") waits in stopPoll for the poll "a", which is in its
\* callback, while the poll "b" is in a callback it invoked on a tick
C28_Witness ==
    /\ op.kind = "delete" /\ op.name = "a"
    /\ pstate[polls["a"]].pc = "callback"
    /\ polls["b"] # None
    /\ pstate[polls["b"]].pc = "callback"
    /\ ~pstate[polls["b"]].callbackOnStart
    /\ ~pstate[polls["b"]].cancelClosed

\* this step is a step of the goroutine of a poll
PollStep == \E p \in PollIds : pstate[p].pc # "free" /\ pstate'[p].pc # pstate[p].pc

\* C29: every pollinator call is made inside the config callback, while
\* Watch waits for that callback to return; the map is changed, and List()
\* taken, only by such steps and never while another call is in progress;
\* and a step of a poll goroutine leaves the map and the calls on it alone.
C29_Owner ==
    /\ op.kind # "none" => op.by = "pass" /\ pass.pc # "none"
    /\ pass.pc # "none" => cfgPc = "callback"
C29_Steps ==
    /\ polls' # polls => pass.pc # "none" /\ cfgPc = "callback" /\ ~PollStep
    /\ (pass.pc = "none" /\ pass'.pc # "none") =>
          op.kind = "none" /\ pass'.listed = List /\ ~PollStep
    /\ PollStep => polls' = polls /\ op' = op /\ pass' = pass
C29_MapHasOneThread == [](C29_Owner) /\ [][C29_Steps]_vars
\* the config callback waits in stopPoll for a poll that is in its callback,
\* while the poll of the other name is in its callback too
C29_Witness ==
    /\ op.kind = "add" /\ op.by = "pass"
    /\ pstate[polls[op.name]].pc = "callback"
    /\ \E n \in Names \ {op.name} : polls[n] # None /\ pstate[polls[n]].pc = "callback"

\* C30: a goroutine of the errgroup only moves forward, from not started to
\* its one invocation of the action's Handle and to its return, whatever
\* the other actions returned; the loop of Handle can always start the next
\* action; and Handle has returned, and the lock is released, only when
\* every action was invoked and has returned.
C30_AllRun ==
    \A c \in Callers :
       /\ (InHandle(c) /\ handle[c].started < Len(actions)) => ENABLED HandleGo(c)
       /\ handle[c].pc = "returned" =>
              /\ Len(handle[c].go) = Len(actions)
              /\ \A k \in 1..Len(actions) : handle[c].go[k].pc = "done"
       /\ (actionLock # c /\ handle[c].pc \notin {"idle", "lock"}) => handle[c].pc = "returned"
C30_Steps ==
    \A c \in Callers :
       /\ (InHandle(c) /\ handle'[c].pc = "go") =>
              \A k \in 1..Len(actions) :
                 handle'[c].go[k].pc # handle[c].go[k].pc =>
                    <<handle[c].go[k].pc, handle'[c].go[k].pc>>
                        \in {<<"none", "run">>, <<"run", "call">>, <<"run", "done">>,
                             <<"call", "done">>}
       /\ (InHandle(c) /\ handle'[c].pc = "returned") =>
              /\ \A k \in 1..Len(actions) : handle[c].go[k].pc = "done"
              /\ actionLock = c /\ actionLock' = Unlocked
C30_EveryActionRunsOnce == [](C30_AllRun) /\ [][C30_Steps]_vars
\* Handle has returned for two actions: the first returned an error, and the
\* second was invoked once all the same, with a context that was cancelled by
\* then
C30_Witness ==
    \E c \in Callers :
       /\ handle[c].pc = "returned"
       /\ Len(actions) = 2
       /\ handle[c].go[1].err # Nil
       /\ handle[c].go[2].calls = 1
       /\ handle[c].go[2].callErr = Canceled

\* the error ret holds the message of err
Reflects(ret, err) ==
    \E i \in 1..Len(ret) : i + Len(err) - 1 <= Len(ret) /\ SubSeq(ret, i, i + Len(err) - 1) = err

\* C31: the error a Handle call returned reflects the error of every action
\* of the call that returned one.
C31_CombinedError ==
    \A c \in Callers :
       handle[c].pc = "returned" =>
           \A k \in 1..Len(handle[c].go) :
              handle[c].go[k].err # Nil => Reflects(handle[c].ret, handle[c].go[k].err)

\* C32: a ListIssues call that returned an error returned no items; one that
\* returned without error has followed the cursor to the last page, has
\* evaluated every issue of the repository and returns exactly those that
\* matched; and a query or sub-fetch made with a cancelled context makes the
\* call return an error.
C32_Returned ==
    list.pc = "returned" =>
        IF list.ret.err
           THEN list.ret.issues = <<>>
           ELSE /\ ~list.hasNextPage
                /\ list.next > list.total
                /\ {e.id : e \in list.evals} = 1..list.total
                /\ IdsOf(list.ret.issues) = {e.id : e \in {x \in list.evals : x.ok}}
                /\ Len(list.ret.issues) = Cardinality(IdsOf(list.ret.issues))
C32_Steps ==
    (parentDone /\ list.pc \in {"query", "labels", "body", "fill"} /\ list' # list) =>
        list'.pc = "returned" /\ list'.ret.err /\ list'.ret.issues = <<>>
C32_NoPartialResult == [](C32_Returned) /\ [][C32_Steps]_vars
\* the call returned an error and no items on the second page, after it had
\* gathered an item of the first
C32_Witness ==
    /\ list.pc = "returned"
    /\ list.ret.err
    /\ list.ret.issues = <<>>
    /\ Len(list.allIssues) > 0
    /\ list.next > PageSize + 1

\* C33: listIssueLabels never crashes, and a call that returned without
\* error returns the labels of all the pages of the issue.
C33_AllLabelPages ==
    /\ labelq.pc # "panicked"
    /\ (labelq.pc = "returned" /\ ~labelq.ret.err) => labelq.ret.labels = labelq.labels

\* the error of loadConfig for a watch without a filter type
FilterTypeError == Wrap("unable to validate watch: ", <<"expected at least one filter type">>)
\* the watch of the file configures no selectors, no body regex, no required
\* labels and no states
NoFilters(w) ==
    w.Selectors = <<>> /\ w.BodyRegex = <<>> /\ w.RequiredLabels = <<>> /\ w.States = <<>>

\* C34: a watch of a file that has a name and a repository is rejected with
\* "expected at least one filter type" exactly when it configures no
\* selectors, no body regex, no required labels and no states; and no watch
\* that passed validation is without all four.
C34_FilterTypeCheck ==
    /\ (load.pc = "failed" /\ Len(load.rejected) = 1) =>
          LET w == load.rejected[1]
          IN  (w.Name # "" /\ w.Repositories # <<>>) =>
                  (load.err = FilterTypeError <=> NoFilters(w))
    /\ \A k \in 1..Len(load.watches) : ~NoFilters(load.watches[k])

\* C35: every body-regex matcher of the matchinator accepts an item exactly
\* when its regular expression matches the body of the item, and every
\* title-regex matcher exactly when its regular expression matches the title.
C35_RegexOnTextAsFetched ==
    \A k \in 1..Len(matchFuncs) :
       /\ KindOf(matchFuncs[k]) = KindBodyRegex =>
             \A i \in GitHubItems :
                matchFuncs[k].Matcher[i] <=> RegexMatch(matchFuncs[k].Name[2], i.Body)
       /\ KindOf(matchFuncs[k]) = KindTitleRegex =>
             \A i \in GitHubItems :
                matchFuncs[k].Matcher[i] <=> RegexMatch(matchFuncs[k].Name[2], i.Title)

\* C36: when the watch has a selector on the key "body", the body of every
\* item had been fetched when Matches was called on it.
C36_BodySelectorSeesBody ==
    (\E k \in 1..Len(watch.selectors) : watch.selectors[k].key = "body") =>
        \A e \in list.evals : e.body

\* C37: a poll invokes its callback only from its start or from its select,
\* never from inside an invocation; a poll inside an invocation does not
\* close its doneChan or return, it can only come back to its select; and an
\* Add or Delete that waits in stopPoll returns only when the goroutine of
\* the poll has returned, which it does not while the callback runs.
C37_Steps ==
    /\ \A p \in PollIds :
          /\ Invokes(p) => pstate[p].pc \in {"start", "select"}
          /\ pstate[p].pc = "callback" =>
                /\ pstate'[p].pc \in {"callback", "select"}
                /\ ~pstate'[p].doneClosed
    /\ (op.kind \in {"add", "delete"} /\ op'.kind = "none") =>
          pstate[polls[op.name]].pc = "exited"
C37_Waiting ==
    (op.kind \in {"add", "delete"} /\ pstate[polls[op.name]].pc = "callback") =>
        ~ENABLED AddResume /\ ~ENABLED DeleteResume
C37_InvocationsDoNotOverlap == [](C37_Waiting) /\ [][C37_Steps]_vars
\* an Add of the name waits in stopPoll for a poll that is inside the
\* invocation of a tick, with its cancelChan closed
C37_Witness ==
    /\ op.kind = "add"
    /\ pstate[polls[op.name]].pc = "callback"
    /\ pstate[polls[op.name]].cancelClosed
    /\ count.received[polls[op.name]] > 0

\* the goroutine of the poll p makes its first step
StartsRunning(p) == pstate[p].pc = "start" /\ pstate'[p].pc # "start"
\* the poll p has been told to stop: its cancelChan is closed or the shared
\* context is cancelled
ToldToStop(p) == pstate[p].cancelClosed \/ ctxDone

\* C38 as stated: a poll that has been told to stop when its goroutine
\* starts running does not invoke its callback in that step.
C38_NoCallbackWhenCancelled ==
    [][\A p \in PollIds : (StartsRunning(p) /\ ToldToStop(p)) => ~Invokes(p)]_vars
\* C38, amended: the goroutine of a poll invokes the callback in its first
\* step exactly when the poll was added with doInitialCallback=true, also
\* when it has been told to stop by then; a poll added with false goes to
\* its select without an invocation.
C38_InitialCallbackFirst ==
    [][\A p \in PollIds :
          StartsRunning(p) =>
              /\ Invokes(p) <=> pstate[p].callbackOnStart
              /\ ~pstate[p].callbackOnStart => pstate'[p].pc = "select"]_vars
\* a poll added with doInitialCallback=true after StopAll had returned, that
\* is after the shared context was cancelled, is inside its callback
C38_Witness ==
    /\ stopAllMark > 0
    /\ \E p \in PollIds :
          /\ p >= stopAllMark
          /\ pstate[p].callbackOnStart
          /\ pstate[p].pc = "callback"
          /\ ~pstate[p].tick

\* C39: stopPoll is only entered for a poll whose cancelChan is open, and
\* closes it; a cancelChan that is closed stays closed and is never closed
\* by anything but stopPoll; a doneChan is closed only by the step in which
\* the goroutine of the poll returns, and is closed exactly when it has.
C39_Steps ==
    /\ (op.kind = "none" /\ op'.kind \in {"add", "delete"}) =>
          /\ ~pstate[polls[op'.name]].cancelClosed
          /\ pstate'[polls[op'.name]].cancelClosed
    /\ \A p \in PollIds :
          /\ (~pstate[p].cancelClosed /\ pstate'[p].cancelClosed) =>
                op'.kind \in {"add", "delete"} /\ polls[op'.name] = p
          /\ (~pstate[p].doneClosed /\ pstate'[p].doneClosed) =>
                pstate[p].pc = "select" /\ pstate'[p].pc = "exited"
          /\ pstate[p].pc = "exited" => pstate'[p].pc = "exited"
C39_DoneWhenExited ==
    \A p \in PollIds : pstate[p].doneClosed <=> pstate[p].pc = "exited"
C39_NoDoubleClose == [](C39_DoneWhenExited) /\ [][C39_Steps]_vars
\* a Delete is in stopPoll for a poll that had already returned when StopAll
\* was called: its doneChan was closed then, its cancelChan only now
C39_Witness ==
    /\ op.kind = "delete"
    /\ stopAllMark > 0
    /\ polls[op.name] < stopAllMark
    /\ pstate[polls[op.name]].pc = "exited"
    /\ pstate[polls[op.name]].cancelClosed

\* C40: every Add, Delete and StopAll that has been called returns, and
\* every config callback that has been entered returns.
C40_CallsTerminate ==
    /\ (op.kind # "none") ~> (op.kind = "none")
    /\ (pass.pc # "none") ~> (pass.pc = "none")
\* a pass waits in the stopPoll of an Add for a poll that had returned
\* already because the shared context was cancelled
C40_Witness ==
    /\ pass.pc # "none"
    /\ op.kind = "add"
    /\ ctxDone
    /\ pstate[polls[op.name]].pc = "exited"

====
